---- MODULE Spec2Model ----
(***************************************************************************)
(* Verification model of the AI feedback system                            *)
(* (UINDY-INSTRUCTORS/ai-feedback-system).                                 *)
(*                                                                         *)
(* The module holds one state machine per component of the repository:     *)
(*   SpecFilter   image_utils.filter_images_by_token_budget                *)
(*   SpecOpt      image_utils.optimize_images_for_payload                  *)
(*   SpecExtract  section_extractor.extract_sections_for_criterion_ai and  *)
(*                section_extractor.call_extraction_api                    *)
(*   SpecSeq      dot_github_folder/scripts/ai_feedback_criterion.main     *)
(*   SpecPar      scripts/ai_feedback_criterion.main (thread pool)         *)
(* All machines share the variables; a machine leaves the variables of the *)
(* other machines at their idle value.                                     *)
(***************************************************************************)
EXTENDS Integers, Sequences, FiniteSets, TLC

VARIABLES
    HAS_PIL,            \* image_utils.HAS_PIL: Pillow could be imported
    \* ---- filter_images_by_token_budget
    flt_image_paths,    \* argument image_paths
    flt_max_tokens,     \* argument max_tokens
    flt_max_dimension,  \* argument max_dimension (0 stands for None)
    flt_i,              \* position of the for loop in image_paths
    flt_selected,       \* local selected
    flt_total_tokens,   \* local total_tokens
    flt_pc,             \* "idle" | "loop" | "done"
    \* ---- optimize_images_for_payload
    opt_image_paths,    \* argument image_paths
    opt_text_size,      \* argument text_size_bytes
    opt_payload_tenths, \* argument max_payload_mb, in tenths of a MB
    opt_resolution,     \* config vision.resize_max_dimension
    opt_drop_count,     \* outer loop variable drop_count
    opt_step,           \* index of the inner loop in optimization_steps
    opt_k,              \* position of the innermost loop in images_to_try
    opt_images,         \* local optimized_images
    opt_total_size,     \* local total_size
    opt_result,         \* the returned list
    opt_pc,             \* "idle" | "start" | "image" | "done"
    \* ---- extract_sections_for_criterion_ai and call_extraction_api
    ext_content_len,    \* len(report['content'])
    ext_token,          \* GITHUB_TOKEN is set in the environment
    ext_max_retries,    \* argument max_retries of call_extraction_api
    ext_attempt,        \* loop variable attempt
    ext_responses,      \* the responses to the requests sent, in order
    ext_slept,          \* the wait times slept between requests, in order
    ext_wait_time,      \* local wait_time
    ext_last_error,     \* local last_error ("None" or the exception)
    ext_api,            \* call_extraction_api: "idle" | "enter" | "loop" |
                        \*   "backoff" | "returned" | "returned_none" | "raised"
    ext_exc,            \* the exception raised inside the try, or "None"
    ext_text,           \* local extracted_text
    ext_pc,             \* "idle" | "start" | "api" | "raised" | "augment" |
                        \*   "done" | "escaped"
    \* ---- main and analyze_criterion of the sequential orchestrator
    seq_n,              \* len(rubric['criteria'])
    seq_token,          \* GITHUB_TOKEN is set in the environment
    seq_resize_dim,     \* config vision.resize_max_dimension (0: not set)
    seq_i,              \* criterion_index of the for loop of main
    seq_image_paths,    \* image_paths of the criterion under analysis
    seq_text_size,      \* bytes of the prompt of the criterion under analysis
    seq_request,        \* the payload of the grading request sent
    seq_metadata,       \* metadata of the criterion under analysis
    seq_debug_calls,    \* the metadata given to save_debug_criterion_data
    seq_faults,         \* per analysed criterion, the exception raised or "None"
    all_feedback_json,  \* local all_feedback_json of main
    seq_written,        \* the list dumped to feedback.json
    seq_pc,             \* "idle" | "loop" | "build" | "call" | "parse" | "done"
    \* ---- main of the parallel orchestrator (scripts/ai_feedback_criterion.py)
    par_n,              \* len(criteria)
    par_token,          \* GITHUB_TOKEN is set in the environment
    par_future,         \* per criterion, the state of its future: "pending",
                        \*   "running", or its outcome once finished
    par_finished,       \* the finished futures as_completed found on entry
    par_waiter,         \* waiter.finished_futures: completed since, in order
    par_yielded,        \* the futures as_completed has yielded
    par_results,        \* local results of main
    par_feedback,       \* the numbered entries written to feedback.md
    par_pc,             \* "idle" | "submitted" | "collecting" | "done" | "exited"
    \* ---- section_extractor.extract_relevant_images
    sel_all_figures,    \* report['figures']['details']
    sel_criterion,      \* the criterion (name, keywords)
    sel_vision_config,  \* image_priority, max_images_per_criterion,
                        \*   image_token_budget, resize_max_dimension
    sel_extracted_text, \* the text the images are selected for
    sel_relevant_images,\* the dict relevant_images, in insertion order
    sel_limited_paths,  \* limited_paths
    sel_final_paths,    \* the list returned
    sel_pc,             \* "idle" | "embeds" | "generated" | "keywords" |
                        \*   "sort" | "filter" | "done"
    \* ---- section_extractor.extract_sections_for_criterion_ai: the text
    \*      and the images it returns
    sec_report,         \* content, notebook_outputs, figures
    sec_criterion,      \* id, name, keywords
    sec_vision,         \* config['vision']: enabled, enabled_for_criteria
    sec_extracted_text, \* extracted_text as lines 35, 39 or 42 set it
    sec_augmented_text, \* extracted_text as line 45 sets it: the text returned
    sec_image_paths,    \* image_paths: the images returned
    sec_llm_calls,      \* calls of call_extraction_api so far
    sec_selector_calls, \* calls of extract_relevant_images so far
    sec_pc,             \* "idle" | "start" | "extracted" | "augmented" |
                        \*   "done" | "raised"
    \* ---- image_utils.estimate_image_tokens, one call
    est_file,           \* the file at image_path: exists, readable, width,
                        \*   height, file_size
    est_max_dimension,  \* max_dimension (0: None)
    est_tokens,         \* the value returned
    est_pc,             \* "idle" | "call" | "done"
    \* ---- rubric_converter: yaml_to_markdown, then markdown_to_yaml
    rub_criteria,       \* rubric['criteria'] of the YAML file: name, weight
    rub_md,             \* the Markdown file, as a sequence of pieces
    rub_pos,            \* where re.findall goes on in the Markdown
    rub_recovered,      \* rubric['criteria'] of the YAML file written back
    rub_pc,             \* "idle" | "yaml" | "markdown" | "done"
    \* ---- scripts/validate_config.print_summary
    val_all_errors,     \* all_errors: for each file the kinds of its findings
    val_strict,         \* --strict
    val_i,              \* position in sorted(all_errors.keys())
    val_total_errors, val_total_warnings,
    val_has_syntax_errors, val_has_schema_errors,
    val_exit_code,      \* the value returned; -1 before
    val_pc,             \* "idle" | "files" | "summary" | "done"
    \* ---- ai_feedback_criterion.get_criterion_guidance
    gd_lines,           \* guidance.split('\n')
    gd_criterion_name,  \* criterion.get('name', '')
    gd_part1_end,       \* part1_end: the line of the Part II header
    gd_i,               \* the line the second loop is at
    gd_criterion_start, \* criterion_start (0: None)
    gd_criterion_end,   \* criterion_end (0: None)
    gd_result,          \* the lines of the guidance returned
    gd_pc,              \* "idle" | "parts" | "sections" | "combine" | "done"
    \* ---- scripts/ai_feedback.main: the call of the model and its fallback
    fb_responses,       \* what the API answers to the primary and to the
                        \*   fallback model
    fb_calls,           \* the models call_github_models was called with
    fb_feedback,        \* feedback: the model whose answer is kept, or "none"
    fb_exit_code,       \* the exit status of the process; -1 while it runs
    fb_pc,              \* "idle" | "primary" | "fallback" | "save" | "exited"
    \* ---- scripts/test_deploy.validate_vision_config
    dep_enabled,        \* config['vision']['enabled']
    dep_enabled_for,    \* config['vision']['enabled_for_criteria']
    dep_rubric,         \* rubric['criteria']
    dep_k,              \* position of the loop in enabled_for
    dep_accepted,       \* the entries the loop passed without an issue
    dep_issues,         \* issues: the entry of each issue, or "empty"
    dep_pc              \* "idle" | "start" | "loop" | "done"

fltVars == <<flt_image_paths, flt_max_tokens, flt_max_dimension, flt_i,
             flt_selected, flt_total_tokens, flt_pc>>
optVars == <<opt_image_paths, opt_text_size, opt_payload_tenths, opt_resolution,
             opt_drop_count, opt_step, opt_k, opt_images, opt_total_size,
             opt_result, opt_pc>>
extVars == <<ext_content_len, ext_token, ext_max_retries, ext_attempt,
             ext_responses, ext_slept, ext_wait_time, ext_last_error, ext_api,
             ext_exc, ext_text, ext_pc>>
seqVars == <<seq_n, seq_token, seq_resize_dim, seq_i, seq_image_paths,
             seq_text_size, seq_request, seq_metadata, seq_debug_calls,
             seq_faults, all_feedback_json, seq_written, seq_pc>>
parVars == <<par_n, par_token, par_future, par_finished, par_waiter,
             par_yielded, par_results, par_feedback, par_pc>>
selVars == <<sel_all_figures, sel_criterion, sel_vision_config,
             sel_extracted_text, sel_relevant_images, sel_limited_paths,
             sel_final_paths, sel_pc>>
secVars == <<sec_report, sec_criterion, sec_vision, sec_extracted_text,
             sec_augmented_text, sec_image_paths, sec_llm_calls,
             sec_selector_calls, sec_pc>>
estVars == <<est_file, est_max_dimension, est_tokens, est_pc>>
rubVars == <<rub_criteria, rub_md, rub_pos, rub_recovered, rub_pc>>
valVars == <<val_all_errors, val_strict, val_i, val_total_errors,
             val_total_warnings, val_has_syntax_errors, val_has_schema_errors,
             val_exit_code, val_pc>>
gdVars == <<gd_lines, gd_criterion_name, gd_part1_end, gd_i,
            gd_criterion_start, gd_criterion_end, gd_result, gd_pc>>
fbVars == <<fb_responses, fb_calls, fb_feedback, fb_exit_code, fb_pc>>
depVars == <<dep_enabled, dep_enabled_for, dep_rubric, dep_k, dep_accepted,
             dep_issues, dep_pc>>
vars == <<HAS_PIL, fltVars, optVars, extVars, seqVars, parVars, selVars,
          secVars,
          estVars,
          rubVars,
          valVars,
          gdVars,
          fbVars,
          depVars>>

----------------------------------------------------------------------------
(* Bounds of the model *)

\* longest list of image paths given to the filter and to the optimizer
MaxImages == 3

\* largest number of criteria of a rubric
MaxCriteria == 3

\* largest number of figures of a report
MaxFigures == 3

\* largest number of items (stretches of prose, embed shortcodes) of a
\* report's content
MaxItems == 2

\* largest number of entries of enabled_for_criteria
MaxRefs == 2

----------------------------------------------------------------------------
(* Generic helpers *)

Min(a, b) == IF a <= b THEN a ELSE b

\* Python's int(a * (b / c)) for positive integers: the floor of a*b/c.  (The
\* float product is one below it for a few operands, 491 * (2048 / 3928)
\* among them; for none of the dimensions of the model.)
ScaleDim(a, b, c) == (a * b) \div c

\* no element is in the sequence twice
NoDuplicates(seq) == \A i, j \in 1..Len(seq) : i # j => seq[i] # seq[j]

RECURSIVE SeqsUpTo(_, _)
\* all sequences over S of length at most n
SeqsUpTo(S, n) ==
    IF n = 0 THEN {<<>>}
    ELSE LET shorter == SeqsUpTo(S, n - 1)
         IN  shorter \cup {Append(s, x) : s \in shorter, x \in S}

----------------------------------------------------------------------------
(* The image files on disk.  A path names a file that is missing, a file   *)
(* Pillow cannot open, or an image with a width, a height, a file size and *)
(* a compressibility (JPEG bytes per 100 pixels at each quality).          *)

Paths == {"missing.png", "corrupt.png", "icon.png", "a512.png", "b1024.png"}

FileOf(p) ==
    CASE p = "missing.png" ->
           [exists |-> FALSE, readable |-> FALSE, width |-> 0, height |-> 0,
            file_size |-> 0, density |-> <<0, 0, 0>>]
      [] p = "corrupt.png" ->
           [exists |-> TRUE, readable |-> FALSE, width |-> 0, height |-> 0,
            file_size |-> 1000, density |-> <<0, 0, 0>>]
      [] p = "icon.png" ->
           [exists |-> TRUE, readable |-> TRUE, width |-> 100, height |-> 100,
            file_size |-> 9000, density |-> <<40, 30, 25>>]
      [] p = "a512.png" ->
           [exists |-> TRUE, readable |-> TRUE, width |-> 512, height |-> 512,
            file_size |-> 300000, density |-> <<40, 30, 25>>]
      [] OTHER ->
           [exists |-> TRUE, readable |-> TRUE, width |-> 1024, height |-> 1024,
            file_size |-> 2400000, density |-> <<40, 30, 25>>]

----------------------------------------------------------------------------
(* image_utils.estimate_image_tokens *)

\* TileTokens with the tiles of each axis rounded down
TileTokensFloor(w, h) == 85 + ((w \div 512) * (h \div 512)) * 170

\* ResizeTo that brings the longer side to max_dimension whatever its size
ResizeAlways(w, h, md) ==
    IF md # 0
    THEN IF w > h THEN <<md, ScaleDim(h, md, w)>>
                  ELSE <<ScaleDim(w, md, h), md>>
    ELSE <<w, h>>

\* aspect-preserving downscale to max_dimension (0 or None: no resize)
ResizeTo(w, h, md) ==
    IF md # 0 /\ (w > md \/ h > md)
    THEN IF w > h THEN <<md, ScaleDim(h, md, w)>>
                  ELSE <<ScaleDim(w, md, h), md>>
    ELSE <<w, h>>

\* clamp into the 2048 x 2048 box
ClampTo2048(w, h) ==
    IF w > 2048 \/ h > 2048
    THEN IF w > h THEN <<2048, ScaleDim(h, 2048, w)>>
                  ELSE <<ScaleDim(w, 2048, h), 2048>>
    ELSE <<w, h>>

TileTokens(w, h) == 85 + (((w + 511) \div 512) * ((h + 511) \div 512)) * 170

\* one call of estimate_image_tokens, branch by branch
DimensionValues == {1, 100, 512, 513, 1024, 2048, 2049, 3000, 4096}
EstMaxDimensionValues == {0, 384, 512, 768, 1024, 3000}
EstFiles ==
    { [exists |-> FALSE, readable |-> FALSE, width |-> 0, height |-> 0,
       file_size |-> 0],
      [exists |-> TRUE, readable |-> FALSE, width |-> 0, height |-> 0,
       file_size |-> 1000] }
      \cup { [exists |-> TRUE, readable |-> TRUE, width |-> w, height |-> h,
              file_size |-> (3 * w * h) \div 4] :
                w \in DimensionValues, h \in DimensionValues }

IdleEst ==
    /\ est_file = [exists |-> FALSE, readable |-> FALSE, width |-> 0,
                   height |-> 0, file_size |-> 0]
    /\ est_max_dimension = 0 /\ est_tokens = 0 /\ est_pc = "idle"

\* lines 181-183: no file at the path
EstMissing ==
    /\ est_pc = "call"
    /\ ~est_file.exists
    /\ est_tokens' = 0
    /\ est_pc' = "done"
    /\ UNCHANGED <<est_file, est_max_dimension>>

\* lines 185-189: without Pillow, by the size of the file
EstWithoutPil ==
    /\ est_pc = "call"
    /\ est_file.exists /\ ~HAS_PIL
    /\ est_tokens' = 85 + (est_file.file_size \div 500)
    /\ est_pc' = "done"
    /\ UNCHANGED <<est_file, est_max_dimension>>

\* lines 191, 223-225: Image.open raises
EstUnreadable ==
    /\ est_pc = "call"
    /\ est_file.exists /\ HAS_PIL /\ ~est_file.readable
    /\ est_tokens' = 500
    /\ est_pc' = "done"
    /\ UNCHANGED <<est_file, est_max_dimension>>

\* lines 191-221: resize, clamp, tiles
EstTiles ==
    /\ est_pc = "call"
    /\ est_file.exists /\ HAS_PIL /\ est_file.readable
    /\ LET r == ResizeTo(est_file.width, est_file.height, est_max_dimension)
           c == ClampTo2048(r[1], r[2])
       IN  est_tokens' = TileTokens(c[1], c[2])
    /\ est_pc' = "done"
    /\ UNCHANGED <<est_file, est_max_dimension>>

estimate_image_tokens(p, md) ==
    LET f == FileOf(p)
    IN  IF ~f.exists THEN 0
        ELSE IF ~HAS_PIL THEN 85 + (f.file_size \div 500)
        ELSE IF ~f.readable THEN 500
        ELSE LET r == ResizeTo(f.width, f.height, md)
                 c == ClampTo2048(r[1], r[2])
             IN  TileTokens(c[1], c[2])

RECURSIVE SumTokens(_, _)
\* the running total of filter_images_by_token_budget over a whole list
SumTokens(paths, md) ==
    IF paths = <<>> THEN 0
    ELSE estimate_image_tokens(Head(paths), md) + SumTokens(Tail(paths), md)

----------------------------------------------------------------------------
(* image_utils.filter_images_by_token_budget *)

MaxTokensValues == {-1, 0, 255, 1000, 2000}
MaxDimensionValues == {0, 512, 768}

IdleFilter ==
    /\ flt_image_paths = <<>> /\ flt_max_tokens = 0 /\ flt_max_dimension = 0
    /\ flt_i = 0 /\ flt_selected = <<>> /\ flt_total_tokens = 0
    /\ flt_pc = "idle"

\* the test of line 249, taken with the mistake of leaving the image out
FitsBudgetIgnoringImage(total, img_tokens, budget) == total <= budget

\* the test of line 249
FitsBudget(total, img_tokens, budget) == total + img_tokens <= budget

\* one iteration of the for loop that selects the image
FilterSelect ==
    /\ flt_pc = "loop"
    /\ flt_i <= Len(flt_image_paths)
    /\ LET img_path == flt_image_paths[flt_i]
           img_tokens == estimate_image_tokens(img_path, flt_max_dimension)
       IN  /\ FitsBudget(flt_total_tokens, img_tokens, flt_max_tokens)
           /\ flt_selected' = Append(flt_selected, img_path)
           /\ flt_total_tokens' = flt_total_tokens + img_tokens
           /\ flt_i' = flt_i + 1
    /\ UNCHANGED <<flt_image_paths, flt_max_tokens, flt_max_dimension, flt_pc>>

\* the else branch with `continue` in place of `break`
FilterSkipAndGoOn ==
    /\ flt_pc = "loop"
    /\ flt_i <= Len(flt_image_paths)
    /\ ~FitsBudget(flt_total_tokens,
                   estimate_image_tokens(flt_image_paths[flt_i], flt_max_dimension),
                   flt_max_tokens)
    /\ flt_i' = flt_i + 1
    /\ UNCHANGED <<flt_image_paths, flt_max_tokens, flt_max_dimension,
                   flt_selected, flt_total_tokens, flt_pc>>

\* the else branch: the first image over the budget ends the loop
FilterBreak ==
    /\ flt_pc = "loop"
    /\ flt_i <= Len(flt_image_paths)
    /\ ~FitsBudget(flt_total_tokens,
                   estimate_image_tokens(flt_image_paths[flt_i], flt_max_dimension),
                   flt_max_tokens)
    /\ flt_pc' = "done"
    /\ UNCHANGED <<flt_image_paths, flt_max_tokens, flt_max_dimension, flt_i,
                   flt_selected, flt_total_tokens>>

\* the loop is exhausted: return selected, total_tokens
FilterReturn ==
    /\ flt_pc = "loop"
    /\ flt_i > Len(flt_image_paths)
    /\ flt_pc' = "done"
    /\ UNCHANGED <<flt_image_paths, flt_max_tokens, flt_max_dimension, flt_i,
                   flt_selected, flt_total_tokens>>

----------------------------------------------------------------------------
(* image_utils.optimize_images_for_payload *)

JSON_OVERHEAD_BYTES == 10000

\* max_payload_mb * 1024 * 1024, max_payload_mb given in tenths of a MB; the
\* comparisons with integer sizes see the floor of the float product
MaxPayloadBytes(tenths) == (tenths * 1024 * 1024) \div 10

available_bytes(tenths, text_size) ==
    MaxPayloadBytes(tenths) - text_size - JSON_OVERHEAD_BYTES

\* optimization_steps with a first step that is already degraded
optimization_steps_degraded(initial_resolution) ==
    << [quality |-> 75, resolution |-> initial_resolution],
       [quality |-> 75, resolution |-> initial_resolution],
       [quality |-> 65, resolution |-> initial_resolution],
       [quality |-> 65, resolution |-> 512],
       [quality |-> 65, resolution |-> 384] >>

\* optimization_steps for an initial resolution
optimization_steps(initial_resolution) ==
    << [quality |-> 85, resolution |-> initial_resolution],
       [quality |-> 75, resolution |-> initial_resolution],
       [quality |-> 65, resolution |-> initial_resolution],
       [quality |-> 65, resolution |-> 512],
       [quality |-> 65, resolution |-> 384] >>

QualityIndex(q) == IF q >= 85 THEN 1 ELSE IF q >= 75 THEN 2 ELSE 3

\* Image.open succeeds and encode_image_to_jpeg returns bytes
Encodable(p) == FileOf(p).exists /\ FileOf(p).readable

\* number of bytes Pillow's JPEG encoder gives for the image resized to the
\* resolution (downscale only, aspect kept) at the quality
JpegLen(p, quality, resolution) ==
    LET f == FileOf(p)
        r == ResizeTo(f.width, f.height, resolution)
    IN  600 + (r[1] * r[2] * f.density[QualityIndex(quality)]) \div 100

\* len(f"data:image/jpeg;base64,{b64encode(jpeg_bytes)}")
DataUriLen(n) == 23 + 4 * ((n + 2) \div 3)

\* the record appended to optimized_images; base64_data is kept by its length
OptimizedImage(p, step) ==
    [path |-> p,
     base64_len |-> DataUriLen(JpegLen(p, step.quality, step.resolution)),
     size_bytes |-> DataUriLen(JpegLen(p, step.quality, step.resolution)),
     resolution |-> step.resolution,
     quality |-> step.quality]

TextSizeValues == {0, 2500000, 2600000, 2700000}
PayloadTenthsValues == {25}
ResolutionValues == {384, 768}

IdleOpt ==
    /\ opt_image_paths = <<>> /\ opt_text_size = 0 /\ opt_payload_tenths = 0
    /\ opt_resolution = 0 /\ opt_drop_count = 0 /\ opt_step = 0 /\ opt_k = 0
    /\ opt_images = <<>> /\ opt_total_size = 0 /\ opt_result = <<>>
    /\ opt_pc = "idle"

opt_images_to_try == SubSeq(opt_image_paths, 1, Len(opt_image_paths) - opt_drop_count)
opt_available == available_bytes(opt_payload_tenths, opt_text_size)
opt_current_step == optimization_steps(opt_resolution)[opt_step]

optInputs == <<opt_image_paths, opt_text_size, opt_payload_tenths, opt_resolution>>

\* line 391: no Pillow or no image
OptEarlyReturn ==
    /\ opt_pc = "start"
    /\ (~HAS_PIL \/ opt_image_paths = <<>>)
    /\ opt_result' = <<>>
    /\ opt_pc' = "done"
    /\ UNCHANGED <<optInputs, opt_drop_count, opt_step, opt_k, opt_images,
                   opt_total_size>>

\* lines 394-421: the loops are entered with every image and the first step
OptBegin ==
    /\ opt_pc = "start"
    /\ HAS_PIL /\ opt_image_paths # <<>>
    /\ opt_drop_count' = 0 /\ opt_step' = 1 /\ opt_k' = 1
    /\ opt_images' = <<>> /\ opt_total_size' = 0
    /\ opt_pc' = "image"
    /\ UNCHANGED <<optInputs, opt_result>>

\* the size test of line 452, taken on the image alone
WithinAvailableAlone(total, size, available) == size <= available

\* the size test of line 452, left out
WithinAvailableUnchecked(total, size, available) == TRUE

\* the size test of line 452
WithinAvailable(total, size, available) == total + size <= available

\* lines 424-467, one image of images_to_try at the current step
OptImage ==
    /\ opt_pc = "image"
    /\ opt_k <= Len(opt_images_to_try)
    /\ LET img_path == opt_images_to_try[opt_k]
           rec == OptimizedImage(img_path, opt_current_step)
       IN  IF ~Encodable(img_path)
           THEN \* Image.open raised, or no jpeg_bytes: continue
                /\ opt_k' = opt_k + 1
                /\ UNCHANGED <<opt_images, opt_total_size>>
           ELSE IF WithinAvailable(opt_total_size, rec.size_bytes, opt_available)
           THEN /\ opt_images' = Append(opt_images, rec)
                /\ opt_total_size' = opt_total_size + rec.size_bytes
                /\ opt_k' = opt_k + 1
           ELSE IF opt_images # <<>>
           THEN \* break
                /\ opt_k' = Len(opt_images_to_try) + 1
                /\ UNCHANGED <<opt_images, opt_total_size>>
           ELSE /\ opt_k' = opt_k + 1
                /\ UNCHANGED <<opt_images, opt_total_size>>
    /\ UNCHANGED <<optInputs, opt_drop_count, opt_step, opt_result, opt_pc>>

\* line 470, satisfied as soon as one image is in
SomeRequestedFit(images, to_try) == Len(images) >= 1

\* line 470
AllRequestedFit(images, to_try) == Len(images) = Len(to_try)

\* lines 469-482: every image of the subset is in: return
OptSuccess ==
    /\ opt_pc = "image"
    /\ opt_k > Len(opt_images_to_try)
    /\ AllRequestedFit(opt_images, opt_images_to_try)
    /\ opt_result' = opt_images
    /\ opt_pc' = "done"
    /\ UNCHANGED <<optInputs, opt_drop_count, opt_step, opt_k, opt_images,
                   opt_total_size>>

\* lines 416-422: the next step for the same subset
OptNextStep ==
    /\ opt_pc = "image"
    /\ opt_k > Len(opt_images_to_try)
    /\ ~AllRequestedFit(opt_images, opt_images_to_try)
    /\ opt_step < Len(optimization_steps(opt_resolution))
    /\ opt_step' = opt_step + 1
    /\ opt_k' = 1 /\ opt_images' = <<>> /\ opt_total_size' = 0
    /\ UNCHANGED <<optInputs, opt_drop_count, opt_result, opt_pc>>

\* lines 413-414: the steps are exhausted, the last image is dropped
OptDropImage ==
    /\ opt_pc = "image"
    /\ opt_k > Len(opt_images_to_try)
    /\ ~AllRequestedFit(opt_images, opt_images_to_try)
    /\ opt_step = Len(optimization_steps(opt_resolution))
    /\ opt_drop_count + 1 < Len(opt_image_paths)
    /\ opt_drop_count' = opt_drop_count + 1
    /\ opt_step' = 1 /\ opt_k' = 1 /\ opt_images' = <<>> /\ opt_total_size' = 0
    /\ UNCHANGED <<optInputs, opt_result, opt_pc>>

\* lines 484-486: nothing fitted
OptGiveUp ==
    /\ opt_pc = "image"
    /\ opt_k > Len(opt_images_to_try)
    /\ ~AllRequestedFit(opt_images, opt_images_to_try)
    /\ opt_step = Len(optimization_steps(opt_resolution))
    /\ opt_drop_count + 1 >= Len(opt_image_paths)
    /\ opt_result' = <<>>
    /\ opt_pc' = "done"
    /\ UNCHANGED <<optInputs, opt_drop_count, opt_step, opt_k, opt_images,
                   opt_total_size>>

----------------------------------------------------------------------------
(* section_extractor.call_extraction_api and                               *)
(* section_extractor.extract_sections_for_criterion_ai                     *)

\* default of the argument max_retries
max_retries_default == 3

\* a text is the first len characters of the report content, or a reply of
\* the extraction model of len characters; NoText before the assignment
NoText == [source |-> "none", len |-> 0]
ContentPrefix(n) == [source |-> "content", len |-> n]
LlmText(n) == [source |-> "llm", len |-> n]

ContentLenValues == {0, 499, 500, 8000, 9000}
LlmLenValues == {0, 1200}

\* Retry-After of a 429 response: absent, a number of seconds, not a number,
\* or a negative number
RetryAfterValues == {"absent", "5", "soon", "-1"}

\* what one requests.post and the reading of its reply can give: a well-formed
\* reply, HTTP 429, another HTTP error status (raise_for_status), a connection
\* error or timeout, or a 200 reply without choices[0].message.content
Responses ==
    {[kind |-> k, retry_after |-> "absent", len |-> 0] :
        k \in {"http_error", "network", "malformed"}}
    \cup {[kind |-> "ok", retry_after |-> "absent", len |-> n] : n \in LlmLenValues}
    \cup {[kind |-> "429", retry_after |-> h, len |-> 0] : h \in RetryAfterValues}

\* the exception each failing response raises
ExceptionOf(resp) ==
    CASE resp.kind = "429" -> "HTTPError"
      [] resp.kind = "http_error" -> "HTTPError"
      [] resp.kind = "network" -> "ConnectionError"
      [] OTHER -> "KeyError"

RECURSIVE Pow2(_)
Pow2(n) == IF n = 0 THEN 1 ELSE 2 * Pow2(n - 1)

\* lines 351-359: the wait before the retry
RetryWait(retry_after, attempt) ==
    CASE retry_after = "5" -> 5
      [] retry_after = "-1" -> -1
      [] OTHER -> Pow2(attempt)

IdleExt ==
    /\ ext_content_len = 0 /\ ext_token = FALSE /\ ext_max_retries = 0
    /\ ext_attempt = 0 /\ ext_responses = <<>> /\ ext_slept = <<>>
    /\ ext_wait_time = 0 /\ ext_last_error = "None" /\ ext_api = "idle"
    /\ ext_exc = "None" /\ ext_text = NoText /\ ext_pc = "idle"

extInputs == <<ext_content_len, ext_token, ext_max_retries>>
extApiLocals == <<ext_attempt, ext_responses, ext_slept, ext_wait_time,
                  ext_last_error>>

\* lines 33-35: a content shorter than 500 characters is taken as it is
ExtShortContent ==
    /\ ext_pc = "start"
    /\ ext_content_len < 500
    /\ ext_text' = ContentPrefix(ext_content_len)
    /\ ext_pc' = "augment"
    /\ UNCHANGED <<extInputs, extApiLocals, ext_api, ext_exc>>

\* line 38: build_extraction_prompt returns, or raises on a malformed report
\* (a heading of report['structure'] without 'level' or 'text')
ExtBuildPrompt ==
    /\ ext_pc = "start"
    /\ ext_content_len >= 500
    /\ \E built \in BOOLEAN :
          IF built
          THEN /\ ext_pc' = "api" /\ ext_api' = "enter" /\ UNCHANGED ext_exc
          ELSE /\ ext_pc' = "raised" /\ ext_exc' = "KeyError" /\ UNCHANGED ext_api
    /\ UNCHANGED <<extInputs, extApiLocals, ext_text>>

\* lines 301-328: no token raises ValueError; else the retry loop is entered
ApiEnter ==
    /\ ext_pc = "api" /\ ext_api = "enter"
    /\ IF ~ext_token
       THEN /\ ext_api' = "raised" /\ ext_exc' = "ValueError"
       ELSE /\ ext_api' = IF 0 < ext_max_retries THEN "loop" ELSE "returned_none"
            /\ UNCHANGED ext_exc
    /\ ext_attempt' = 0
    /\ UNCHANGED <<extInputs, ext_responses, ext_slept, ext_wait_time,
                   ext_last_error, ext_text, ext_pc>>

\* line 347, widened to every HTTP error status
IsAnyHttpError(resp) == resp.kind \in {"429", "http_error"}

\* line 347: e.response.status_code == 429
IsRateLimited(resp) == resp.kind = "429"

\* lines 329-369: one request of the loop and the handling of its reply
ApiRequest ==
    /\ ext_pc = "api" /\ ext_api = "loop"
    /\ \E resp \in Responses :
          /\ ext_responses' = Append(ext_responses, resp)
          /\ IF resp.kind = "ok"
             THEN /\ ext_api' = "returned"
                  /\ ext_text' = LlmText(resp.len)
                  /\ UNCHANGED <<ext_exc, ext_last_error, ext_wait_time>>
             ELSE IF ExceptionOf(resp) # "HTTPError"
             THEN \* not caught by `except HTTPError`: leaves the function
                  /\ ext_api' = "raised"
                  /\ ext_exc' = ExceptionOf(resp)
                  /\ UNCHANGED <<ext_text, ext_last_error, ext_wait_time>>
             ELSE IF IsRateLimited(resp) /\ ext_attempt < ext_max_retries - 1
             THEN /\ ext_api' = "backoff"
                  /\ ext_last_error' = "HTTPError"
                  /\ ext_wait_time' = RetryWait(resp.retry_after, ext_attempt)
                  /\ UNCHANGED <<ext_text, ext_exc>>
             ELSE \* 429 on the last attempt, or another status: raise
                  /\ ext_api' = "raised"
                  /\ ext_last_error' = "HTTPError"
                  /\ ext_exc' = "HTTPError"
                  /\ UNCHANGED <<ext_text, ext_wait_time>>
    /\ UNCHANGED <<extInputs, ext_attempt, ext_slept, ext_pc>>

\* lines 362-363 and 328, 372-373: time.sleep(wait_time), which raises
\* ValueError on a negative time, then continue with the next attempt
ApiBackoff ==
    /\ ext_pc = "api" /\ ext_api = "backoff"
    /\ IF ext_wait_time < 0
       THEN /\ ext_api' = "raised" /\ ext_exc' = "ValueError"
            /\ UNCHANGED <<ext_attempt, ext_slept>>
       ELSE /\ ext_slept' = Append(ext_slept, ext_wait_time)
            /\ ext_attempt' = ext_attempt + 1
            /\ IF ext_attempt + 1 < ext_max_retries
               THEN ext_api' = "loop" /\ UNCHANGED ext_exc
               ELSE ext_api' = "raised" /\ ext_exc' = ext_last_error
    /\ UNCHANGED <<extInputs, ext_responses, ext_wait_time, ext_last_error,
                   ext_text, ext_pc>>

\* line 39: the call returned, its value is the extracted text
ExtApiReturned ==
    /\ ext_pc = "api" /\ ext_api \in {"returned", "returned_none"}
    /\ ext_pc' = "augment"
    /\ UNCHANGED <<extInputs, extApiLocals, ext_api, ext_exc, ext_text>>

\* line 39: the call raised, the exception reaches the try of the caller
ExtApiRaised ==
    /\ ext_pc = "api" /\ ext_api = "raised"
    /\ ext_pc' = "raised"
    /\ UNCHANGED <<extInputs, extApiLocals, ext_api, ext_exc, ext_text>>

\* an except clause that names requests.exceptions.HTTPError only
CaughtIfHttpError(exc) == exc = "HTTPError"

\* line 40: `except Exception` catches every exception raised in the try
CaughtByExcept(exc) ==
    exc \in {"HTTPError", "ConnectionError", "KeyError", "ValueError"}

\* line 42
TruncatedContent(n) == ContentPrefix(Min(n, 8000))

\* lines 40-42: the warning and the fallback to the head of the raw content
ExtExceptFallback ==
    /\ ext_pc = "raised"
    /\ IF CaughtByExcept(ext_exc)
       THEN /\ ext_text' = TruncatedContent(ext_content_len)
            /\ ext_pc' = "augment"
       ELSE /\ ext_pc' = "escaped"
            /\ UNCHANGED ext_text
    /\ UNCHANGED <<extInputs, extApiLocals, ext_api, ext_exc>>

\* lines 44-70: the text goes through the embed substitution and is returned
\* with the image paths
ExtReturn ==
    /\ ext_pc = "augment"
    /\ ext_pc' = "done"
    /\ UNCHANGED <<extInputs, extApiLocals, ext_api, ext_exc, ext_text>>

----------------------------------------------------------------------------
(* dot_github_folder/scripts/ai_feedback_criterion.py: main,               *)
(* analyze_criterion, build_criterion_prompt and call_github_models_api    *)

\* MAX_PAYLOAD_MB, in tenths of a MB
MAX_PAYLOAD_TENTHS == 25

NoRequest == [sent |-> FALSE, text_size |-> 0, images |-> <<>>]
NoMetadata == [success |-> FALSE, error |-> "None"]
NoFile == <<"not written">>

PromptSizeValues == {20000, 100000}
ResizeDimValues == {0, 768}

\* bytes of the PNG Pillow writes for the image resized to max_dimension:
\* the bytes of the file, by the share of the pixels kept (in percent)
PngLen(p, md) ==
    LET f == FileOf(p)
        r == ResizeTo(f.width, f.height, md)
    IN  ((f.file_size \div 100) * ((r[1] * r[2] * 100) \div (f.width * f.height)))

\* image_utils.encode_image_to_base64 for a .png path, by the length of the
\* data URI it returns; 0 stands for None
encode_image_to_base64(p, md) ==
    LET f == FileOf(p)
    IN  IF ~f.exists THEN 0
        ELSE IF ~HAS_PIL \/ md = 0
             THEN 22 + 4 * ((f.file_size + 2) \div 3)
        ELSE IF ~f.readable THEN 0
        ELSE 22 + 4 * ((PngLen(p, md) + 2) \div 3)

RECURSIVE EncodedImages(_, _)
\* lines 333-338: the image_url parts of the user message, one per path that
\* could be encoded
EncodedImages(paths, md) ==
    IF paths = <<>> THEN <<>>
    ELSE LET len == encode_image_to_base64(Head(paths), md)
             rest == EncodedImages(Tail(paths), md)
         IN  IF len # 0 THEN <<[path |-> Head(paths), base64_len |-> len]>> \o rest
             ELSE rest

\* the lists extract_relevant_images can return: distinct paths of valid
\* image files, at most max_images_per_criterion of them, within the
\* image_token_budget of 2000
SelectorOutputs(md) ==
    {s \in SeqsUpTo({p \in Paths : Encodable(p)}, 3) :
        /\ \A i, j \in 1..Len(s) : i # j => s[i] # s[j]
        /\ SumTokens(s, md) <= 2000}

\* the exceptions a step of analyze_criterion can end with
BuildFaults == {"KeyError"}
CallFaults == {"HTTPError", "ConnectionError", "KeyError"}
ParseFaults == {"JSONDecodeError"}

\* lines 413-418
SuccessResult(criterion) ==
    [criterion |-> criterion, success |-> TRUE, feedback |-> <<"json">>,
     error |-> "None"]

\* lines 424-430, with the entry marked as a success
FailureResultAsSuccess(criterion, e) ==
    [criterion |-> criterion, success |-> TRUE,
     feedback |-> <<"Error analyzing this criterion", e>>, error |-> e]

\* lines 424-430
FailureResult(criterion, e) ==
    [criterion |-> criterion, success |-> FALSE,
     feedback |-> <<"Error analyzing this criterion", e>>, error |-> e]

IdleSeq ==
    /\ seq_n = 0 /\ seq_token = FALSE /\ seq_resize_dim = 0 /\ seq_i = 0
    /\ seq_image_paths = <<>> /\ seq_text_size = 0 /\ seq_request = NoRequest
    /\ seq_metadata = NoMetadata /\ seq_debug_calls = <<>> /\ seq_faults = <<>>
    /\ all_feedback_json = <<>> /\ seq_written = NoFile /\ seq_pc = "idle"

seqInputs == <<seq_n, seq_token, seq_resize_dim>>

\* lines 420-430 and 452: the except clause of analyze_criterion, and main
\* appending the result and going to the next criterion
SeqExcept(e) ==
    /\ seq_image_paths' = <<>> /\ seq_text_size' = 0 /\ seq_request' = NoRequest
    /\ seq_metadata' = [seq_metadata EXCEPT !.error = e]
    /\ seq_debug_calls' = Append(seq_debug_calls, [seq_metadata EXCEPT !.error = e])
    /\ all_feedback_json' = Append(all_feedback_json, FailureResult(seq_i, e))
    /\ seq_faults' = Append(seq_faults, e)
    /\ seq_i' = seq_i + 1
    /\ seq_pc' = "loop"

\* lines 450-451 and 367-380: the next criterion enters analyze_criterion
SeqAnalyze ==
    /\ seq_pc = "loop"
    /\ seq_i <= seq_n
    /\ seq_metadata' = [success |-> FALSE, error |-> "None"]
    /\ seq_image_paths' = <<>> /\ seq_text_size' = 0
    /\ seq_pc' = "build"
    /\ UNCHANGED <<seqInputs, seq_i, seq_request, seq_debug_calls, seq_faults,
                   all_feedback_json, seq_written>>

\* lines 383-385: the guidance and build_criterion_prompt, which returns the
\* prompt with the image paths of the selector
SeqBuildPrompt ==
    /\ seq_pc = "build"
    /\ \E paths \in SelectorOutputs(seq_resize_dim), size \in PromptSizeValues :
          /\ seq_image_paths' = paths
          /\ seq_text_size' = size
          /\ seq_pc' = "call"
    /\ UNCHANGED <<seqInputs, seq_i, seq_request, seq_metadata, seq_debug_calls,
                   seq_faults, all_feedback_json, seq_written>>

\* lines 383-385 raising during the extraction or the image selection, e.g.
\* a report without content or a level of the criterion that is no mapping
SeqBuildPromptFails ==
    /\ seq_pc = "build"
    /\ \E e \in BuildFaults : SeqExcept(e)
    /\ UNCHANGED <<seqInputs, seq_written>>

\* lines 317-319: call_github_models_api without a token
SeqCallWithoutToken ==
    /\ seq_pc = "call"
    /\ ~seq_token
    /\ SeqExcept("ValueError")
    /\ UNCHANGED <<seqInputs, seq_written>>

\* lines 324-349: the payload, every selected path encoded by
\* encode_image_to_base64
RequestPayload(text_size, paths, md) ==
    [sent |-> TRUE, text_size |-> text_size, images |-> EncodedImages(paths, md)]

\* lines 388-406: the request is sent and answered well
SeqCallApi ==
    /\ seq_pc = "call"
    /\ seq_token
    /\ seq_request' = RequestPayload(seq_text_size, seq_image_paths, seq_resize_dim)
    /\ seq_metadata' = [seq_metadata EXCEPT !.success = TRUE]
    /\ seq_pc' = "parse"
    /\ UNCHANGED <<seqInputs, seq_i, seq_image_paths, seq_text_size,
                   seq_debug_calls, seq_faults, all_feedback_json, seq_written>>

\* lines 353-357 raising: an HTTP error status, a connection error, a reply
\* without choices[0].message.content
SeqCallApiFails ==
    /\ seq_pc = "call"
    /\ seq_token
    /\ \E e \in CallFaults : SeqExcept(e)
    /\ UNCHANGED <<seqInputs, seq_written>>

\* lines 409-418 and 452: the reply parses, the debug data is saved and the
\* result appended
SeqParse ==
    /\ seq_pc = "parse"
    /\ seq_debug_calls' = Append(seq_debug_calls, seq_metadata)
    /\ all_feedback_json' = Append(all_feedback_json, SuccessResult(seq_i))
    /\ seq_faults' = Append(seq_faults, "None")
    /\ seq_i' = seq_i + 1
    /\ seq_pc' = "loop"
    /\ seq_image_paths' = <<>> /\ seq_text_size' = 0 /\ seq_request' = NoRequest
    /\ UNCHANGED <<seqInputs, seq_metadata, seq_written>>

\* line 409 raising: the reply is no JSON
SeqParseFails ==
    /\ seq_pc = "parse"
    /\ \E e \in ParseFaults : SeqExcept(e)
    /\ UNCHANGED <<seqInputs, seq_written>>

\* lines 459-464: the loop is over, the list is dumped to feedback.json
SeqWrite ==
    /\ seq_pc = "loop"
    /\ seq_i > seq_n
    /\ seq_written' = all_feedback_json
    /\ seq_pc' = "done"
    /\ UNCHANGED <<seqInputs, seq_i, seq_image_paths, seq_text_size, seq_request,
                   seq_metadata, seq_debug_calls, seq_faults, all_feedback_json>>

----------------------------------------------------------------------------
(* scripts/ai_feedback_criterion.py: main, analyze_criterion and           *)
(* combine_feedback, criteria analysed by a pool of two threads            *)

\* ThreadPoolExecutor(max_workers=2)
max_workers == 2

\* how the call of analyze_criterion in a future can end: it returns the
\* result of a graded criterion ("ok"), it returns the result of its except
\* clause ("failed"), it raises before its try statement ("raised"), or
\* call_github_models ends it with sys.exit ("exit")
Outcomes == {"ok", "failed", "raised", "exit"}

NoFeedback == <<"not written">>

\* lines 226-230 and 233-237: the result analyze_criterion returns
AnalysisResult(criterion, outcome) ==
    IF outcome = "ok"
    THEN [criterion |-> criterion, success |-> TRUE, feedback |-> <<"feedback">>]
    ELSE [criterion |-> criterion, success |-> FALSE,
          feedback |-> <<"Error analyzing this criterion", "HTTPError">>]

\* lines 326-330: the entry main makes for a future that raised
RaisedResult(criterion) ==
    [criterion |-> criterion, success |-> FALSE,
     feedback |-> <<"Error analyzing this criterion", "KeyError">>]

\* lines 255-257: the numbered entries of combine_feedback, in the order of
\* the list it is given
combine_feedback(results) ==
    [k \in 1..Len(results) |->
        [number |-> k, criterion |-> results[k].criterion,
         feedback |-> results[k].feedback]]

IdlePar ==
    /\ par_n = 0 /\ par_token = FALSE /\ par_future = <<>>
    /\ par_finished = {} /\ par_waiter = <<>> /\ par_yielded = {}
    /\ par_results = <<>> /\ par_feedback = NoFeedback /\ par_pc = "idle"

parInputs == <<par_n, par_token>>

Running == {i \in 1..par_n : par_future[i] = "running"}
IsFinished(i) == par_future[i] \in Outcomes

\* a thread of the pool takes the next work item of the queue
WorkerStart ==
    /\ par_pc \in {"submitted", "collecting"}
    /\ Cardinality(Running) < max_workers
    /\ \E i \in 1..par_n :
          /\ par_future[i] = "pending"
          /\ \A j \in 1..(i - 1) : par_future[j] # "pending"
          /\ par_future' = [par_future EXCEPT ![i] = "running"]
    /\ UNCHANGED <<parInputs, par_finished, par_waiter, par_yielded,
                   par_results, par_feedback, par_pc>>

\* the future of criterion i is finished with the outcome: as_completed,
\* once entered, is told of it
FutureDone(i, outcome) ==
    /\ par_future' = [par_future EXCEPT ![i] = outcome]
    /\ par_waiter' = IF par_pc = "collecting" THEN Append(par_waiter, i)
                     ELSE par_waiter
    /\ UNCHANGED <<parInputs, par_finished, par_yielded, par_results,
                   par_feedback, par_pc>>

\* lines 219-237: analyze_criterion returns, the criterion graded or the
\* request failed
WorkerReturns ==
    /\ par_pc \in {"submitted", "collecting"}
    /\ par_token
    /\ \E i \in Running, outcome \in {"ok", "failed"} : FutureDone(i, outcome)

\* lines 208-212: analyze_criterion raises before its try statement, from a
\* criterion without name or weight or from build_criterion_prompt
WorkerRaises ==
    /\ par_pc \in {"submitted", "collecting"}
    /\ \E i \in Running : FutureDone(i, "raised")

\* lines 161-164: call_github_models without a token
WorkerExits ==
    /\ par_pc \in {"submitted", "collecting"}
    /\ ~par_token
    /\ \E i \in Running : FutureDone(i, "exit")

\* line 318: as_completed is entered and notes the futures finished so far
MainAsCompleted ==
    /\ par_pc = "submitted"
    /\ par_finished' = {i \in 1..par_n : IsFinished(i)}
    /\ par_pc' = "collecting"
    /\ UNCHANGED <<parInputs, par_future, par_waiter, par_yielded, par_results,
                   par_feedback>>

\* lines 319-330: the body of the loop for the future as_completed yields
MainCollect(i) ==
    /\ par_yielded' = par_yielded \cup {i}
    /\ IF par_future[i] = "exit"
       THEN /\ par_pc' = "exited"
            /\ par_results' = par_results
       ELSE /\ par_pc' = par_pc
            /\ par_results' =
                  Append(par_results,
                         IF par_future[i] = "raised" THEN RaisedResult(i)
                         ELSE AnalysisResult(i, par_future[i]))
    /\ UNCHANGED <<parInputs, par_future, par_feedback>>

\* as_completed yields, in the order of a set, one of the futures that were
\* finished when it was entered
MainCollectFinished ==
    /\ par_pc = "collecting"
    /\ \E i \in par_finished :
          /\ par_finished' = par_finished \ {i}
          /\ MainCollect(i)
    /\ UNCHANGED par_waiter

\* as_completed yields the future that completed next
MainCollectCompleted ==
    /\ par_pc = "collecting"
    /\ par_finished = {}
    /\ par_waiter # <<>>
    /\ par_waiter' = Tail(par_waiter)
    /\ MainCollect(Head(par_waiter))
    /\ UNCHANGED par_finished

\* lines 335-340: every future was yielded; the feedback is combined and
\* written
MainCombine ==
    /\ par_pc = "collecting"
    /\ par_yielded = 1..par_n
    /\ par_feedback' = combine_feedback(par_results)
    /\ par_pc' = "done"
    /\ UNCHANGED <<parInputs, par_future, par_finished, par_waiter, par_yielded,
                   par_results>>

----------------------------------------------------------------------------
(* Texts.  A text is a sequence of items: a stretch of prose, an embed     *)
(* shortcode {{< embed REF >}}, the head of a shortcode cut in two, or a   *)
(* piece put in by the embed substitution.                                 *)

Refs == {"nb.ipynb#fig-plot", "nb.ipynb#tab-data"}

Prose(name) == [kind |-> "prose", val |-> name]
Embed(ref) == [kind |-> "embed", val |-> ref]

\* re.findall(r'\{\{<\s*embed\s+(.*?)\s*>\}\}', text), as a set
EmbedsIn(text) ==
    {text[i].val : i \in {j \in 1..Len(text) : text[j].kind = "embed"}}

----------------------------------------------------------------------------
(* section_extractor.extract_relevant_images and get_image_priority *)

\* the figures a report can hold: path, caption, source
Figures ==
    { [path |-> "a512.png", caption |-> "Error plot",
       source |-> "nb.ipynb#fig-plot"],
      [path |-> "a512.png", caption |-> "Circuit diagram",
       source |-> "nb.ipynb#tab-data"],
      [path |-> "b1024.png", caption |-> "", source |-> "generated:unmapped"],
      [path |-> "icon.png", caption |-> "Setup photo",
       source |-> "markdown:setup"],
      [path |-> "missing.png", caption |-> "Error plot",
       source |-> "nb.ipynb#fig-plot"],
      [path |-> "corrupt.png", caption |-> "Method diagram",
       source |-> "markdown:method"] }

\* str.lower() on the strings of the model
Lower(str) ==
    CASE str = "Error plot" -> "error plot"
      [] str = "Circuit diagram" -> "circuit diagram"
      [] str = "Setup photo" -> "setup photo"
      [] str = "Method diagram" -> "method diagram"
      [] str = "Photo" -> "photo"
      [] str = "Methods" -> "methods"
      [] str = "Results" -> "results"
      [] OTHER -> str

\* `needle in haystack` on lower-case strings of the model
IsSubstring(needle, haystack) ==
    \/ needle = ""
    \/ needle = haystack
    \/ <<needle, haystack>> \in
          { <<"plot", "error plot">>, <<"diagram", "circuit diagram">>,
            <<"diagram", "method diagram">>, <<"setup", "setup photo">>,
            <<"photo", "setup photo">>, <<"method", "method diagram">>,
            <<"a512", "a512.png">>, <<"png", "a512.png">>,
            <<"png", "b1024.png">>, <<"png", "icon.png">>,
            <<"png", "missing.png">>, <<"png", "corrupt.png">> }

\* keyword.lower() in f"{Path(path).name} {caption}".lower(), for a keyword
\* without a blank
InSearchText(keyword, figure) ==
    \/ IsSubstring(Lower(keyword), Lower(figure.path))
    \/ IsSubstring(Lower(keyword), Lower(figure.caption))

\* get_image_priority counting the keywords from 1
get_image_priority_from_one(figure, priority_list) ==
    LET hits == {i \in 1..Len(priority_list) :
                    InSearchText(priority_list[i], figure)}
    IN  IF hits = {} THEN Len(priority_list) + 1
        ELSE CHOOSE i \in hits : \A j \in hits : i <= j

\* lines 227-233: the index, from 0, of the first keyword that matches
get_image_priority(figure, priority_list) ==
    LET hits == {i \in 1..Len(priority_list) :
                    InSearchText(priority_list[i], figure)}
    IN  IF hits = {} THEN Len(priority_list)
        ELSE (CHOOSE i \in hits : \A j \in hits : i <= j) - 1

\* image_utils.validate_image_file for a .png path
validate_image_file(p) ==
    /\ FileOf(p).exists
    /\ HAS_PIL => FileOf(p).readable

\* path in relevant_images
InDict(dict, path) == \E i \in 1..Len(dict) : dict[i].path = path

\* relevant_images[path] = priority: a key already there keeps its place
DictSet(dict, path, priority) ==
    IF InDict(dict, path)
    THEN [i \in 1..Len(dict) |->
            IF dict[i].path = path THEN [dict[i] EXCEPT !.priority = priority]
            ELSE dict[i]]
    ELSE Append(dict, [path |-> path, priority |-> priority])

\* lines 197-198: the keywords and the words of the lower-case name
SearchTerms(criterion) ==
    {criterion.keywords[i] : i \in 1..Len(criterion.keywords)}
       \cup {Lower(criterion.name)}

\* the test each of the three loops makes on a figure before validating it
Wanted(strategy, fig, dict, embeds_in_text, criterion) ==
    CASE strategy = 1 -> fig.source \in embeds_in_text
      [] strategy = 2 ->
            fig.source = "generated:unmapped" /\ ~InDict(dict, fig.path)
      [] OTHER ->
            /\ fig.source \in {"markdown:setup", "markdown:method"}
            /\ ~InDict(dict, fig.path)
            /\ \E term \in SearchTerms(criterion) :
                  IsSubstring(Lower(term), Lower(fig.caption))

RECURSIVE CollectFigures(_, _, _, _, _, _)
\* one of the loops of lines 179-209 over the figures from position k
CollectFigures(strategy, figures, k, dict, text, cfg) ==
    IF k > Len(figures) THEN dict
    ELSE LET fig == figures[k]
             next ==
                IF /\ Wanted(strategy, fig, dict, EmbedsIn(text), cfg.criterion)
                   /\ validate_image_file(fig.path)
                THEN DictSet(dict, fig.path,
                             get_image_priority(fig, cfg.image_priority))
                ELSE dict
         IN  CollectFigures(strategy, figures, k + 1, next, text, cfg)

RECURSIVE InsertByPriority(_, _)
\* one entry put into a list sorted by priority, behind its equals
InsertByPriority(sorted, entry) ==
    IF sorted = <<>> THEN <<entry>>
    ELSE IF Head(sorted).priority <= entry.priority
         THEN <<Head(sorted)>> \o InsertByPriority(Tail(sorted), entry)
         ELSE <<entry>> \o sorted

\* one entry put into a list sorted by priority, in front of its equals
RECURSIVE InsertBeforeEquals(_, _)
InsertBeforeEquals(sorted, entry) ==
    IF sorted = <<>> THEN <<entry>>
    ELSE IF Head(sorted).priority < entry.priority
         THEN <<Head(sorted)>> \o InsertBeforeEquals(Tail(sorted), entry)
         ELSE <<entry>> \o sorted

RECURSIVE SortedEntriesUnstable(_, _)
\* a sort that turns the order of equal entries round
SortedEntriesUnstable(dict, n) ==
    IF n = 0 THEN <<>>
    ELSE InsertBeforeEquals(SortedEntriesUnstable(dict, n - 1), dict[n])

RECURSIVE SortedEntries(_, _)
\* sorted(..., key=priority) of the first n entries: Python's sort is stable
SortedEntries(dict, n) ==
    IF n = 0 THEN <<>>
    ELSE InsertByPriority(SortedEntries(dict, n - 1), dict[n])

\* line 212
sorted_paths(dict) ==
    LET entries == SortedEntries(dict, Len(dict))
    IN  [i \in 1..Len(entries) |-> entries[i].path]

\* sorted_paths[:max_images] taken without the limit
SliceToEnd(seq, n) == seq

\* seq[:n] of Python, n an int
SliceTo(seq, n) ==
    IF n >= 0 THEN SubSeq(seq, 1, Min(n, Len(seq)))
    ELSE SubSeq(seq, 1, Len(seq) + n)

RECURSIVE FilterLoop(_, _, _, _, _)
\* the loop of filter_images_by_token_budget (lines 245-254) from position k
FilterLoop(paths, k, selected, total, cfg) ==
    IF k > Len(paths) THEN selected
    ELSE LET img_tokens == estimate_image_tokens(paths[k], cfg.resize_max_dimension)
         IN  IF FitsBudget(total, img_tokens, cfg.image_token_budget)
             THEN FilterLoop(paths, k + 1, Append(selected, paths[k]),
                             total + img_tokens, cfg)
             ELSE selected

\* lines 217-221: final_paths
BudgetFiltered(paths, cfg) == FilterLoop(paths, 1, <<>>, 0, cfg)

\* the inputs of the selector
PriorityValues == {<<>>, <<"Photo", "plot">>}
MaxImagesValues == {-1, 1, 3}
TokenBudgetValues == {-1, 600, 2000}
Criteria ==
    { [id |-> "methods", name |-> "Methods", keywords |-> <<"setup">>],
      [id |-> "", name |-> "Results", keywords |-> <<>>] }
SelectorTexts ==
    { <<Prose("para"), Embed("nb.ipynb#fig-plot")>>,
      <<Embed("nb.ipynb#tab-data"), Embed("nb.ipynb#fig-plot")>> }

VisionConfig(priority, max_images, budget, md, criterion) ==
    [image_priority |-> priority, max_images_per_criterion |-> max_images,
     image_token_budget |-> budget, resize_max_dimension |-> md,
     criterion |-> criterion]

NoVisionConfig == VisionConfig(<<>>, 0, 0, 0, [id |-> "", name |-> "", keywords |-> <<>>])

IdleSel ==
    /\ sel_all_figures = <<>> /\ sel_criterion = NoVisionConfig.criterion
    /\ sel_vision_config = NoVisionConfig /\ sel_extracted_text = <<>>
    /\ sel_relevant_images = <<>> /\ sel_limited_paths = <<>>
    /\ sel_final_paths = <<>> /\ sel_pc = "idle"

selInputs == <<sel_all_figures, sel_criterion, sel_vision_config,
               sel_extracted_text>>

\* lines 177-185: the figures of the embeds of the text
SelEmbedFigures ==
    /\ sel_pc = "embeds"
    /\ sel_relevant_images' =
          CollectFigures(1, sel_all_figures, 1, <<>>, sel_extracted_text,
                         sel_vision_config)
    /\ sel_pc' = "generated"
    /\ UNCHANGED <<selInputs, sel_limited_paths, sel_final_paths>>

\* lines 187-194: the generated figures no embed names
SelGeneratedFigures ==
    /\ sel_pc = "generated"
    /\ sel_relevant_images' =
          CollectFigures(2, sel_all_figures, 1, sel_relevant_images,
                         sel_extracted_text, sel_vision_config)
    /\ sel_pc' = "keywords"
    /\ UNCHANGED <<selInputs, sel_limited_paths, sel_final_paths>>

\* lines 196-209: the manual figures whose caption holds a search term
SelKeywordFigures ==
    /\ sel_pc = "keywords"
    /\ sel_relevant_images' =
          CollectFigures(3, sel_all_figures, 1, sel_relevant_images,
                         sel_extracted_text, sel_vision_config)
    /\ sel_pc' = "sort"
    /\ UNCHANGED <<selInputs, sel_limited_paths, sel_final_paths>>

\* lines 212-215: sorted by priority and cut to max_images
SelSortAndLimit ==
    /\ sel_pc = "sort"
    /\ sel_limited_paths' =
          SliceTo(sorted_paths(sel_relevant_images),
                  sel_vision_config.max_images_per_criterion)
    /\ sel_pc' = "filter"
    /\ UNCHANGED <<selInputs, sel_relevant_images, sel_final_paths>>

\* lines 217-225: the token budget, and the return
SelFilterAndReturn ==
    /\ sel_pc = "filter"
    /\ sel_final_paths' = BudgetFiltered(sel_limited_paths, sel_vision_config)
    /\ sel_pc' = "done"
    /\ UNCHANGED <<selInputs, sel_relevant_images, sel_limited_paths>>

\* extract_relevant_images as one function
extract_relevant_images(figures, cfg, text) ==
    LET d1 == CollectFigures(1, figures, 1, <<>>, text, cfg)
        d2 == CollectFigures(2, figures, 1, d1, text, cfg)
        d3 == CollectFigures(3, figures, 1, d2, text, cfg)
    IN  BudgetFiltered(SliceTo(sorted_paths(d3), cfg.max_images_per_criterion),
                       cfg)

----------------------------------------------------------------------------
(* section_extractor.augment_with_notebook_outputs *)

\* len() of an item of a text, in characters
ItemLength(item) ==
    CASE item.kind = "embed" -> 31
      [] item.val = "para" -> 200
      [] item.val = "summary" -> 120
      [] item.val = "chapter" -> 7990
      [] OTHER -> 10

RECURSIVE Length(_)
\* len(text)
Length(text) ==
    IF text = <<>> THEN 0 ELSE ItemLength(Head(text)) + Length(Tail(text))

RECURSIVE Truncated(_, _)
\* text[:n]: an item the cut goes through is no longer what it was
Truncated(text, n) ==
    IF text = <<>> \/ n <= 0 THEN <<>>
    ELSE IF ItemLength(Head(text)) <= n
         THEN <<Head(text)>> \o Truncated(Tail(text), n - ItemLength(Head(text)))
         ELSE <<[kind |-> "cut", val |-> Head(text).val]>>

\* the outputs a notebook cell can have
NoOutputs ==
    [html_as_markdown |-> <<>>, markdown |-> <<>>, text |-> <<>>,
     latex |-> <<>>]

NotebookOutput(ref, cell_id, outputs) ==
    [embed |-> ref, cell_id |-> cell_id, outputs |-> outputs]

\* the notebook_outputs of a report: at most one entry for each reference
PlotOutputs ==
    { NoOutputs,
      [html_as_markdown |-> <<"| a | b |">>, markdown |-> <<"Mean is 3">>,
       text |-> <<"x = 3">>, latex |-> <<"E = mc^2">>],
      [NoOutputs EXCEPT !.latex = <<"\\frac{a}{b}">>],
      [NoOutputs EXCEPT !.text = <<"C:\\new\\data">>] }

NotebookOutputLists ==
    LET plot == {<<>>} \cup
                  {<<NotebookOutput("nb.ipynb#fig-plot", "fig_plot", o)>> :
                      o \in PlotOutputs}
        data == {<<>>,
                 <<NotebookOutput("nb.ipynb#tab-data", "tab_data",
                                  [NoOutputs EXCEPT !.markdown = <<"Mean is 3">>])>>}
    IN  {a \o b : a \in plot, b \in data}

\* re.sub reads its replacement as a template: a backslash with a letter
\* that is no escape of the template raises re.error
TemplateRaises(str) == str = "C:\\new\\data"

\* and a backslash with a letter that is one becomes the character it
\* stands for: \f a form feed
TemplateExpanded(str) ==
    IF str = "\\frac{a}{b}" THEN "\frac{a}{b}" ELSE str

\* cell_id.replace('_', ' ').title()
CellLabel(cell_id) ==
    CASE cell_id = "fig_plot" -> "Fig Plot"
      [] cell_id = "tab_data" -> "Tab Data"
      [] OTHER -> cell_id

Pieces(kind, strs) == [i \in 1..Len(strs) |-> [kind |-> kind, val |-> strs[i]]]

\* lines 103-141: output_text of one notebook output
OutputText(nb) ==
    LET o == nb.outputs
        body == Pieces("table", o.html_as_markdown) \o
                Pieces("markdown", o.markdown) \o
                Pieces("fenced", o.text) \o Pieces("latex", o.latex)
    IN  IF body # <<>>
        THEN <<[kind |-> "header", val |-> nb.cell_id]>> \o body
        ELSE <<[kind |-> "label", val |-> CellLabel(nb.cell_id)]>>

\* embed_replacements[embed_ref] = content
ReplacementSet(dict, ref, content) ==
    IF \E i \in 1..Len(dict) : dict[i].ref = ref
    THEN [i \in 1..Len(dict) |->
            IF dict[i].ref = ref THEN [dict[i] EXCEPT !.content = content]
            ELSE dict[i]]
    ELSE Append(dict, [ref |-> ref, content |-> content])

RECURSIVE EmbedReplacements(_, _, _, _)
\* lines 98-144: the loop over the notebook outputs from position k
EmbedReplacements(notebook_outputs, k, embeds_found, dict) ==
    IF k > Len(notebook_outputs) THEN dict
    ELSE LET nb == notebook_outputs[k]
         IN  EmbedReplacements(notebook_outputs, k + 1, embeds_found,
                IF nb.embed \in embeds_found
                THEN ReplacementSet(dict, nb.embed, OutputText(nb))
                ELSE dict)

RECURSIVE Substituted(_, _, _)
\* re.sub(shortcode_pattern, content, text) for a content that is a template
\* without fault
Substituted(text, ref, content) ==
    IF text = <<>> THEN <<>>
    ELSE (IF Head(text).kind = "embed" /\ Head(text).val = ref
          THEN [i \in 1..Len(content) |->
                  [content[i] EXCEPT !.val = TemplateExpanded(@)]]
          ELSE <<Head(text)>>)
         \o Substituted(Tail(text), ref, content)

RECURSIVE SubstituteAll(_, _, _)
\* lines 148-152: the loop over embed_replacements from position k; the
\* result is the text, or the exception re.sub raises
SubstituteAll(text, dict, k) ==
    IF k > Len(dict) THEN [raised |-> FALSE, text |-> text]
    ELSE IF \E i \in 1..Len(dict[k].content) :
                TemplateRaises(dict[k].content[i].val)
         THEN [raised |-> TRUE, text |-> <<>>]
         ELSE SubstituteAll(Substituted(text, dict[k].ref, dict[k].content),
                            dict, k + 1)

\* lines 72-157
augment_with_notebook_outputs(report, extracted_text) ==
    LET embeds_found == EmbedsIn(extracted_text)
        dict == EmbedReplacements(report.notebook_outputs, 1, embeds_found, <<>>)
    IN  IF embeds_found = {} \/ report.notebook_outputs = <<>> \/ dict = <<>>
        THEN [raised |-> FALSE, text |-> extracted_text]
        ELSE SubstituteAll(extracted_text, dict, 1)

----------------------------------------------------------------------------
(* section_extractor.extract_sections_for_criterion_ai: what it returns *)

\* the contents of a report
ContentItems ==
    {Prose("para"), Prose("chapter"), Embed("nb.ipynb#fig-plot"),
     Embed("nb.ipynb#tab-data")}

\* the figures of the report, and the selector's settings left at their
\* defaults
ReportFigures ==
    << [path |-> "a512.png", caption |-> "Error plot",
        source |-> "nb.ipynb#fig-plot"],
       [path |-> "b1024.png", caption |-> "", source |-> "generated:unmapped"],
       [path |-> "icon.png", caption |-> "Setup photo",
        source |-> "markdown:setup"] >>

DefaultVisionConfig(criterion) == VisionConfig(<<>>, 3, 2000, 0, criterion)

\* what the extraction model may answer for a content
LlmTexts(content) ==
    {content, <<Prose("summary")>>,
     <<Prose("summary"), Embed("nb.ipynb#fig-plot")>>}

EnabledForValues == {<<>>, <<"*">>, <<"methods">>, <<"Results">>}

\* a threshold no content is under
IsShortNever(content) == FALSE

\* line 34
IsShort(content) == Length(content) < 500

\* the gate of lines 48-57 without the name
VisionEnabledById(vision, criterion) ==
    LET enabled_for == {vision.enabled_for_criteria[i] :
                           i \in 1..Len(vision.enabled_for_criteria)}
    IN  /\ vision.enabled
        /\ "*" \in enabled_for \/ criterion.id \in enabled_for

\* lines 48-57: vision is enabled, and enabled for this criterion
VisionEnabled(vision, criterion) ==
    LET enabled_for == {vision.enabled_for_criteria[i] :
                           i \in 1..Len(vision.enabled_for_criteria)}
    IN  /\ vision.enabled
        /\ \/ "*" \in enabled_for
           \/ criterion.id \in enabled_for
           \/ criterion.name \in enabled_for

NoReport == [content |-> <<>>, notebook_outputs |-> <<>>, figures |-> <<>>]

IdleSec ==
    /\ sec_report = NoReport /\ sec_criterion = NoVisionConfig.criterion
    /\ sec_vision = [enabled |-> FALSE, enabled_for_criteria |-> <<>>]
    /\ sec_extracted_text = <<>> /\ sec_augmented_text = <<>>
    /\ sec_image_paths = <<>> /\ sec_llm_calls = 0 /\ sec_selector_calls = 0
    /\ sec_pc = "idle"

secInputs == <<sec_report, sec_criterion, sec_vision>>

\* lines 33-35: a short content is taken whole
SecShortContent ==
    /\ sec_pc = "start"
    /\ IsShort(sec_report.content)
    /\ sec_extracted_text' = sec_report.content
    /\ sec_pc' = "extracted"
    /\ UNCHANGED <<secInputs, sec_augmented_text, sec_image_paths,
                   sec_llm_calls, sec_selector_calls>>

\* lines 37-39: the extraction model answers
SecExtracted ==
    /\ sec_pc = "start"
    /\ ~IsShort(sec_report.content)
    /\ \E answer \in LlmTexts(sec_report.content) :
          sec_extracted_text' = answer
    /\ sec_llm_calls' = sec_llm_calls + 1
    /\ sec_pc' = "extracted"
    /\ UNCHANGED <<secInputs, sec_augmented_text, sec_image_paths,
                   sec_selector_calls>>

\* lines 37-42: the extraction call raises
SecExtractionFails ==
    /\ sec_pc = "start"
    /\ ~IsShort(sec_report.content)
    /\ sec_extracted_text' = Truncated(sec_report.content, 8000)
    /\ sec_llm_calls' = sec_llm_calls + 1
    /\ sec_pc' = "extracted"
    /\ UNCHANGED <<secInputs, sec_augmented_text, sec_image_paths,
                   sec_selector_calls>>

\* line 45
SecAugment ==
    /\ sec_pc = "extracted"
    /\ LET r == augment_with_notebook_outputs(sec_report, sec_extracted_text)
       IN  /\ ~r.raised
           /\ sec_augmented_text' = r.text
    /\ sec_pc' = "augmented"
    /\ UNCHANGED <<secInputs, sec_extracted_text, sec_image_paths,
                   sec_llm_calls, sec_selector_calls>>

\* line 45: re.error leaves the function, no handler is around the call
SecAugmentRaises ==
    /\ sec_pc = "extracted"
    /\ augment_with_notebook_outputs(sec_report, sec_extracted_text).raised
    /\ sec_pc' = "raised"
    /\ UNCHANGED <<secInputs, sec_extracted_text, sec_augmented_text,
                   sec_image_paths, sec_llm_calls, sec_selector_calls>>

\* lines 47-70 with the gate open: the images of the augmented text
SecSelectImages ==
    /\ sec_pc = "augmented"
    /\ VisionEnabled(sec_vision, sec_criterion)
    /\ sec_image_paths' =
          extract_relevant_images(sec_report.figures,
                                  DefaultVisionConfig(sec_criterion),
                                  sec_augmented_text)
    /\ sec_selector_calls' = sec_selector_calls + 1
    /\ sec_pc' = "done"
    /\ UNCHANGED <<secInputs, sec_extracted_text, sec_augmented_text,
                   sec_llm_calls>>

\* lines 47-70 with the gate shut: no image
SecNoImages ==
    /\ sec_pc = "augmented"
    /\ ~VisionEnabled(sec_vision, sec_criterion)
    /\ sec_image_paths' = <<>>
    /\ sec_pc' = "done"
    /\ UNCHANGED <<secInputs, sec_extracted_text, sec_augmented_text,
                   sec_llm_calls, sec_selector_calls>>

----------------------------------------------------------------------------
(* rubric_converter.yaml_to_markdown and markdown_to_yaml.  The Markdown is *)
(* a sequence of pieces: "hdr", the text '## Criterion i: '; "txt", text    *)
(* that holds neither a header nor a weight; "pct", the text ' (n%)' with n *)
(* written in digits, which is what \s+\((\d+)%\) matches; "body", the rest *)
(* of a criterion up to its rule.  A name is the sequence of the pieces it  *)
(* is written with; a weight is an int, or a float given in tenths.         *)

Txt(str) == [kind |-> "txt", val |-> str, n |-> 0]
Pct(n) == [kind |-> "pct", val |-> "", n |-> n]
Hdr(i) == [kind |-> "hdr", val |-> "", n |-> i]
Body == [kind |-> "body", val |-> "", n |-> 0]

IntWeight(n) == [type |-> "int", tenths |-> 10 * n]
FloatWeight(tenths) == [type |-> "float", tenths |-> tenths]

\* f"({weight}%)" of line 57: digits for an int; a float is written with its
\* point, 12.5 and also 50.0
WeightPieces(weight) ==
    IF weight.type = "int" THEN <<Pct(weight.tenths \div 10)>>
    ELSE <<Txt("float%")>>

\* lines 52-109: what yaml_to_markdown writes for criterion i
CriterionMarkdown(i, criterion) ==
    <<Hdr(i)>> \o criterion.name \o WeightPieces(criterion.weight) \o <<Body>>

RECURSIVE RubricMarkdown(_, _)
\* lines 51-109: the loop over the criteria from position i
RubricMarkdown(criteria, i) ==
    IF i > Len(criteria) THEN <<>>
    ELSE CriterionMarkdown(i, criteria[i]) \o RubricMarkdown(criteria, i + 1)

\* positions of the pieces of a kind at or after position from
PiecesFrom(md, kind, from) ==
    {k \in from..Len(md) : md[k].kind = kind}

Lowest(S) == CHOOSE k \in S : \A j \in S : k <= j

\* lines 303-304: where criteria_pattern matches next at or after position
\* from: a header, a name of at least one character, the first ' (n%)' behind
\* it; <<>> when it matches no more
NextCriterionMatch(md, from) ==
    LET starts == {h \in PiecesFrom(md, "hdr", from) :
                      PiecesFrom(md, "pct", h + 2) # {}}
    IN  IF starts = {} THEN <<>>
        ELSE LET h == Lowest(starts)
                 w == Lowest(PiecesFrom(md, "pct", h + 2))
                 rest == PiecesFrom(md, "hdr", w + 1)
             IN  <<[name |-> SubSeq(md, h + 1, w - 1), weight |-> md[w].n,
                    end |-> IF rest = {} THEN Len(md) + 1 ELSE Lowest(rest)]>>

RubricNames ==
    { <<Txt("Methods")>>, <<Txt("Tests"), Pct(50)>> }
RubricWeights == {IntWeight(40), IntWeight(60), FloatWeight(125), FloatWeight(500)}

IdleRub ==
    /\ rub_criteria = <<>> /\ rub_md = <<>> /\ rub_pos = 0
    /\ rub_recovered = <<>> /\ rub_pc = "idle"

\* yaml_to_markdown, lines 23-121
RubYamlToMarkdown ==
    /\ rub_pc = "yaml"
    /\ rub_md' = RubricMarkdown(rub_criteria, 1)
    /\ rub_pos' = 1
    /\ rub_pc' = "markdown"
    /\ UNCHANGED <<rub_criteria, rub_recovered>>

\* markdown_to_yaml, lines 306-370: one match of criteria_pattern
RubCriterionMatched ==
    /\ rub_pc = "markdown"
    /\ NextCriterionMatch(rub_md, rub_pos) # <<>>
    /\ LET match == NextCriterionMatch(rub_md, rub_pos)[1]
       IN  /\ rub_recovered' =
                 Append(rub_recovered,
                        [name |-> match.name, weight |-> IntWeight(match.weight)])
           /\ rub_pos' = match.end
    /\ UNCHANGED <<rub_criteria, rub_md, rub_pc>>

\* markdown_to_yaml, lines 372-380: no further match, the YAML is written
RubWriteYaml ==
    /\ rub_pc = "markdown"
    /\ NextCriterionMatch(rub_md, rub_pos) = <<>>
    /\ rub_pc' = "done"
    /\ UNCHANGED <<rub_criteria, rub_md, rub_pos, rub_recovered>>

----------------------------------------------------------------------------
(* scripts/validate_config.print_summary.  The findings of a file are given *)
(* by their kinds: "syntax", an error whose message holds 'YAML syntax      *)
(* error' or 'File not found'; "schema", any other error; "warning".        *)

\* sorted(all_errors.keys())
SortedFiles == <<"config.yml", "guidance.md", "rubric.yml">>

\* a file that cannot be loaded has this one finding; a file that is loaded
\* has schema errors, warnings, both or none
FindingSets ==
    {{}, {"syntax"}, {"schema"}, {"warning"}, {"schema", "warning"}}

\* len(file_errors), len(file_warnings)
FileErrors(findings) == Cardinality(findings \cap {"syntax", "schema"})
FileWarnings(findings) == Cardinality(findings \cap {"warning"})

IdleVal ==
    /\ val_all_errors = [f \in {} |-> {}] /\ val_strict = FALSE /\ val_i = 0
    /\ val_total_errors = 0 /\ val_total_warnings = 0
    /\ val_has_syntax_errors = FALSE /\ val_has_schema_errors = FALSE
    /\ val_exit_code = -1 /\ val_pc = "idle"

valLocals == <<val_total_errors, val_total_warnings, val_has_syntax_errors,
               val_has_schema_errors>>

\* lines 149-153: a file without findings
ValFileValid ==
    /\ val_pc = "files" /\ val_i <= Len(SortedFiles)
    /\ val_all_errors[SortedFiles[val_i]] = {}
    /\ val_i' = val_i + 1
    /\ UNCHANGED <<val_all_errors, val_strict, valLocals, val_exit_code, val_pc>>

\* lines 155-182: a file with findings
ValFileFindings ==
    /\ val_pc = "files" /\ val_i <= Len(SortedFiles)
    /\ LET findings == val_all_errors[SortedFiles[val_i]]
       IN  /\ findings # {}
           /\ val_total_errors' = val_total_errors + FileErrors(findings)
           /\ val_total_warnings' = val_total_warnings + FileWarnings(findings)
           /\ val_has_syntax_errors' =
                 (val_has_syntax_errors \/ "syntax" \in findings)
           /\ val_has_schema_errors' =
                 (val_has_schema_errors
                     \/ ("syntax" \notin findings /\ FileErrors(findings) > 0))
    /\ val_i' = val_i + 1
    /\ UNCHANGED <<val_all_errors, val_strict, val_exit_code, val_pc>>

\* the loop over the files ends
ValFilesDone ==
    /\ val_pc = "files" /\ val_i > Len(SortedFiles)
    /\ val_pc' = "summary"
    /\ UNCHANGED <<val_all_errors, val_strict, val_i, valLocals, val_exit_code>>

\* lines 186-188: strict, with warnings
ValStrictWithWarnings ==
    /\ val_pc = "summary"
    /\ val_strict /\ val_total_warnings > 0
    /\ val_exit_code' =
          IF val_has_schema_errors \/ val_total_warnings # 0 THEN 2
          ELSE IF val_has_syntax_errors THEN 1 ELSE 3
    /\ val_pc' = "done"
    /\ UNCHANGED <<val_all_errors, val_strict, val_i, valLocals>>

\* lines 189-197: no error; warnings do not fail the run
ValNoErrors ==
    /\ val_pc = "summary"
    /\ ~(val_strict /\ val_total_warnings > 0)
    /\ val_total_errors = 0
    /\ val_exit_code' = 0
    /\ val_pc' = "done"
    /\ UNCHANGED <<val_all_errors, val_strict, val_i, valLocals>>

\* lines 198-205: errors
ValFailed ==
    /\ val_pc = "summary"
    /\ ~(val_strict /\ val_total_warnings > 0)
    /\ val_total_errors # 0
    /\ val_exit_code' =
          IF val_has_syntax_errors THEN 1
          ELSE IF val_has_schema_errors THEN 2 ELSE 3
    /\ val_pc' = "done"
    /\ UNCHANGED <<val_all_errors, val_strict, val_i, valLocals>>

----------------------------------------------------------------------------
(* ai_feedback_criterion.get_criterion_guidance.  A line of the guidance is *)
(* '# PART I ...', '# PART II ...', '## CRITERION: <name>', another major   *)
(* header '# ...', or text; a text line carries the name of the section it  *)
(* is in.                                                                   *)

Line(kind, name) == [kind |-> kind, name |-> name]

SectionNames == {"Analysis", "Data Analysis", "Methods"}

\* criterion_name in line, for a line '## CRITERION: <header>'
NameInHeader(criterion_name, header) ==
    \/ criterion_name = header
    \/ criterion_name = "Analysis" /\ header = "Data Analysis"

RECURSIVE SectionLines(_)
\* Part II: for each section its header and its text
SectionLines(names) ==
    IF names = <<>> THEN <<>>
    ELSE <<Line("criterion", Head(names)), Line("text", Head(names))>>
            \o SectionLines(Tail(names))

\* a guidance in the two-part format, with or without a major section behind
\* Part II
Guidance(names, appendix) ==
    <<Line("part1", ""), Line("text", "general"), Line("part2", "")>>
       \o SectionLines(names)
       \o (IF appendix THEN <<Line("major", ""), Line("text", "appendix")>>
           ELSE <<>>)

\* the '---' line put between the two parts, line 204
Separator == Line("text", "---")

IdleGd ==
    /\ gd_lines = <<>> /\ gd_criterion_name = "" /\ gd_part1_end = 0
    /\ gd_i = 0 /\ gd_criterion_start = 0 /\ gd_criterion_end = 0
    /\ gd_result = <<>> /\ gd_pc = "idle"

gdInputs == <<gd_lines, gd_criterion_name>>

\* lines 142-165: the first loop finds the header of Part II
GdFindParts ==
    /\ gd_pc = "parts"
    /\ LET part2 == {k \in 1..Len(gd_lines) : gd_lines[k].kind = "part2"}
       IN  /\ part2 # {}
           /\ gd_part1_end' = Lowest(part2)
           /\ gd_i' = Lowest(part2)
    /\ gd_pc' = "sections"
    /\ UNCHANGED <<gdInputs, gd_criterion_start, gd_criterion_end, gd_result>>

\* lines 176-178: a criterion header with the name in it
GdSectionStart ==
    /\ gd_pc = "sections" /\ gd_i <= Len(gd_lines)
    /\ gd_lines[gd_i].kind = "criterion"
    /\ NameInHeader(gd_criterion_name, gd_lines[gd_i].name)
    /\ gd_criterion_start' = gd_i
    /\ gd_i' = gd_i + 1
    /\ UNCHANGED <<gdInputs, gd_part1_end, gd_criterion_end, gd_result, gd_pc>>

\* lines 180-188: the next criterion header or major header ends the section
GdSectionEnd ==
    /\ gd_pc = "sections" /\ gd_i <= Len(gd_lines)
    /\ gd_criterion_start # 0
    /\ \/ /\ gd_lines[gd_i].kind = "criterion"
          /\ ~NameInHeader(gd_criterion_name, gd_lines[gd_i].name)
       \/ gd_lines[gd_i].kind = "major"
    /\ gd_criterion_end' = gd_i
    /\ gd_pc' = "combine"
    /\ UNCHANGED <<gdInputs, gd_part1_end, gd_i, gd_criterion_start, gd_result>>

\* any other line
GdOtherLine ==
    /\ gd_pc = "sections" /\ gd_i <= Len(gd_lines)
    /\ ~(/\ gd_lines[gd_i].kind = "criterion"
         /\ NameInHeader(gd_criterion_name, gd_lines[gd_i].name))
    /\ ~(/\ gd_criterion_start # 0
         /\ gd_lines[gd_i].kind \in {"criterion", "major"})
    /\ gd_i' = gd_i + 1
    /\ UNCHANGED <<gdInputs, gd_part1_end, gd_criterion_start,
                   gd_criterion_end, gd_result, gd_pc>>

\* the loop reaches the last line
GdLastLine ==
    /\ gd_pc = "sections" /\ gd_i > Len(gd_lines)
    /\ gd_pc' = "combine"
    /\ UNCHANGED <<gdInputs, gd_part1_end, gd_i, gd_criterion_start,
                   gd_criterion_end, gd_result>>

\* lines 190-208: Part I, and the section when there is one
GdCombine ==
    /\ gd_pc = "combine"
    /\ LET general_guidance == SubSeq(gd_lines, 1, gd_part1_end - 1)
           criterion_section ==
              IF gd_criterion_start = 0 THEN <<>>
              ELSE IF gd_criterion_end # 0
                   THEN SubSeq(gd_lines, gd_criterion_start, gd_criterion_end - 1)
                   ELSE SubSeq(gd_lines, gd_criterion_start, Len(gd_lines))
       IN  gd_result' = IF criterion_section # <<>>
                        THEN general_guidance \o <<Separator>> \o criterion_section
                        ELSE general_guidance
    /\ gd_pc' = "done"
    /\ UNCHANGED <<gdInputs, gd_part1_end, gd_i, gd_criterion_start,
                   gd_criterion_end>>

----------------------------------------------------------------------------
(* scripts/ai_feedback.py: main and call_github_models *)

\* what a call of the API can meet: an answer; an HTTP error status; a
\* timeout; a connection error; a body without 'choices'; a choice without
\* 'message'
ApiOutcomes ==
    {"ok", "http_429", "http_401", "http_500", "timeout", "connection",
     "no_choices", "no_message"}

\* lines 251-274: the failures for which call_github_models calls
\* sys.exit(1).  SystemExit is no Exception: 'except Exception' of main does
\* not catch it
CallExits(outcome) ==
    outcome \in {"http_429", "http_401", "http_500", "timeout", "connection",
                 "no_choices"}

\* line 255: result['choices'][0]['message'] raises KeyError, which no
\* handler of call_github_models catches
CallRaises(outcome) == outcome = "no_message"

IdleFb ==
    /\ fb_responses = [primary |-> "ok", fallback |-> "ok"]
    /\ fb_calls = <<>> /\ fb_feedback = "none" /\ fb_exit_code = -1
    /\ fb_pc = "idle"

\* lines 295-301: the primary model answers
FbPrimaryAnswers ==
    /\ fb_pc = "primary"
    /\ fb_responses.primary = "ok"
    /\ fb_calls' = Append(fb_calls, "primary")
    /\ fb_feedback' = "primary"
    /\ fb_pc' = "save"
    /\ UNCHANGED <<fb_responses, fb_exit_code>>

\* lines 296, 251-274: sys.exit(1) inside the call ends the process
FbPrimaryExits ==
    /\ fb_pc = "primary"
    /\ CallExits(fb_responses.primary)
    /\ fb_calls' = Append(fb_calls, "primary")
    /\ fb_exit_code' = 1
    /\ fb_pc' = "exited"
    /\ UNCHANGED <<fb_responses, fb_feedback>>

\* lines 296, 303-304: an exception of the call reaches the handler of main
FbPrimaryRaises ==
    /\ fb_pc = "primary"
    /\ CallRaises(fb_responses.primary)
    /\ fb_calls' = Append(fb_calls, "primary")
    /\ fb_pc' = "fallback"
    /\ UNCHANGED <<fb_responses, fb_feedback, fb_exit_code>>

\* lines 305-311: the fallback model answers
FbFallbackAnswers ==
    /\ fb_pc = "fallback"
    /\ fb_responses.fallback = "ok"
    /\ fb_calls' = Append(fb_calls, "fallback")
    /\ fb_feedback' = "fallback"
    /\ fb_pc' = "save"
    /\ UNCHANGED <<fb_responses, fb_exit_code>>

\* lines 306, 251-274 and 312-314: the fallback call exits, or raises and
\* main exits
FbFallbackFails ==
    /\ fb_pc = "fallback"
    /\ fb_responses.fallback # "ok"
    /\ fb_calls' = Append(fb_calls, "fallback")
    /\ fb_exit_code' = 1
    /\ fb_pc' = "exited"
    /\ UNCHANGED <<fb_responses, fb_feedback>>

\* lines 316-326: feedback.md is written and main returns
FbSave ==
    /\ fb_pc = "save"
    /\ fb_exit_code' = 0
    /\ fb_pc' = "exited"
    /\ UNCHANGED <<fb_responses, fb_calls, fb_feedback>>

----------------------------------------------------------------------------
(* scripts/test_deploy.py: validate_vision_config *)

\* the criteria a rubric is made of; the id of a criterion may be empty
DeployCriteria ==
    {[id |-> "code_quality", name |-> "Code Quality"],
     [id |-> "analysis", name |-> "Analysis"],
     [id |-> "", name |-> "Results"]}

\* the entries of enabled_for_criteria: the wildcard, an id, a name,
\* positions, a reference to nothing
CriterionRefs == {"*", "code_quality", "Analysis", "1", "2", "typo"}

\* line 150: str(i+1)
str(n) == <<"1", "2", "3", "4", "5">>[n]

\* line 147
valid_ids(criteria) ==
    {criteria[i].id : i \in {j \in 1..Len(criteria) : criteria[j].id # ""}}

\* line 148
valid_names(criteria) ==
    {criteria[i].name : i \in {j \in 1..Len(criteria) : criteria[j].name # ""}}

\* line 150
valid_positions(criteria) == {str(i) : i \in 1..Len(criteria)}

\* lines 156-160
is_valid(criterion_ref, criteria) ==
    \/ criterion_ref \in valid_ids(criteria)
    \/ criterion_ref \in valid_names(criteria)
    \/ criterion_ref \in valid_positions(criteria)

IdleDep ==
    /\ dep_enabled = FALSE /\ dep_enabled_for = <<>> /\ dep_rubric = <<>>
    /\ dep_k = 0 /\ dep_accepted = <<>> /\ dep_issues = <<>> /\ dep_pc = "idle"

depInputs == <<dep_enabled, dep_enabled_for, dep_rubric>>

\* lines 134-137: vision is disabled, nothing to check
DepVisionDisabled ==
    /\ dep_pc = "start"
    /\ ~dep_enabled
    /\ dep_pc' = "done"
    /\ UNCHANGED <<depInputs, dep_k, dep_accepted, dep_issues>>

\* lines 139-143: enabled_for_criteria is empty
DepEmptyList ==
    /\ dep_pc = "start"
    /\ dep_enabled
    /\ dep_enabled_for = <<>>
    /\ dep_issues' = Append(dep_issues, "empty")
    /\ dep_pc' = "done"
    /\ UNCHANGED <<depInputs, dep_k, dep_accepted>>

\* lines 145-152: the valid references are collected and the loop begins
DepCollect ==
    /\ dep_pc = "start"
    /\ dep_enabled
    /\ dep_enabled_for # <<>>
    /\ dep_k' = 1
    /\ dep_pc' = "loop"
    /\ UNCHANGED <<depInputs, dep_accepted, dep_issues>>

\* lines 153-154: the wildcard is valid
DepWildcard ==
    /\ dep_pc = "loop"
    /\ dep_k <= Len(dep_enabled_for)
    /\ dep_enabled_for[dep_k] = "*"
    /\ dep_accepted' = Append(dep_accepted, dep_enabled_for[dep_k])
    /\ dep_k' = dep_k + 1
    /\ UNCHANGED <<depInputs, dep_issues, dep_pc>>

\* lines 156-162: the entry is an id, a name or a position of the rubric
DepValidRef ==
    /\ dep_pc = "loop"
    /\ dep_k <= Len(dep_enabled_for)
    /\ dep_enabled_for[dep_k] # "*"
    /\ is_valid(dep_enabled_for[dep_k], dep_rubric)
    /\ dep_accepted' = Append(dep_accepted, dep_enabled_for[dep_k])
    /\ dep_k' = dep_k + 1
    /\ UNCHANGED <<depInputs, dep_issues, dep_pc>>

\* lines 162-168: the entry matches nothing, an issue is added
DepInvalidRef ==
    /\ dep_pc = "loop"
    /\ dep_k <= Len(dep_enabled_for)
    /\ dep_enabled_for[dep_k] # "*"
    /\ ~is_valid(dep_enabled_for[dep_k], dep_rubric)
    /\ dep_issues' = Append(dep_issues, dep_enabled_for[dep_k])
    /\ dep_k' = dep_k + 1
    /\ UNCHANGED <<depInputs, dep_accepted, dep_pc>>

\* line 170: the issues are returned
DepReturn ==
    /\ dep_pc = "loop"
    /\ dep_k > Len(dep_enabled_for)
    /\ dep_pc' = "done"
    /\ UNCHANGED <<depInputs, dep_k, dep_accepted, dep_issues>>

----------------------------------------------------------------------------
(* The specifications *)

InitFilter ==
    /\ HAS_PIL \in BOOLEAN
    /\ flt_image_paths \in SeqsUpTo(Paths, MaxImages)
    /\ flt_max_tokens \in MaxTokensValues
    /\ flt_max_dimension \in MaxDimensionValues
    /\ flt_i = 1 /\ flt_selected = <<>> /\ flt_total_tokens = 0
    /\ flt_pc = "loop"
    /\ IdleOpt /\ IdleExt /\ IdleSeq /\ IdlePar /\ IdleSel /\ IdleSec
    /\ IdleEst
    /\ IdleRub
    /\ IdleVal
    /\ IdleGd
    /\ IdleFb
    /\ IdleDep

\* what the filter leaves alone
FilterFrame == UNCHANGED <<HAS_PIL, optVars, extVars, seqVars, parVars, selVars,
                       secVars,
                       estVars,
                       rubVars,
                       valVars,
                       gdVars,
                       fbVars,
                       depVars>>

NextFilter ==
    \/ FilterSelect /\ FilterFrame
    \/ FilterBreak /\ FilterFrame
    \/ FilterReturn /\ FilterFrame

SpecFilter == InitFilter /\ [][NextFilter]_vars

InitOpt ==
    /\ HAS_PIL \in BOOLEAN
    /\ opt_image_paths \in SeqsUpTo(Paths, MaxImages)
    /\ opt_text_size \in TextSizeValues
    /\ opt_payload_tenths \in PayloadTenthsValues
    /\ opt_resolution \in ResolutionValues
    /\ opt_drop_count = 0 /\ opt_step = 0 /\ opt_k = 0
    /\ opt_images = <<>> /\ opt_total_size = 0 /\ opt_result = <<>>
    /\ opt_pc = "start"
    /\ IdleFilter /\ IdleExt /\ IdleSeq /\ IdlePar /\ IdleSel /\ IdleSec
    /\ IdleEst
    /\ IdleRub
    /\ IdleVal
    /\ IdleGd
    /\ IdleFb
    /\ IdleDep

\* what the optimizer leaves alone
OptFrame == UNCHANGED <<HAS_PIL, fltVars, extVars, seqVars, parVars, selVars,
                       secVars,
                       estVars,
                       rubVars,
                       valVars,
                       gdVars,
                       fbVars,
                       depVars>>

NextOpt ==
    \/ OptEarlyReturn /\ OptFrame
    \/ OptBegin /\ OptFrame
    \/ OptImage /\ OptFrame
    \/ OptSuccess /\ OptFrame
    \/ OptNextStep /\ OptFrame
    \/ OptDropImage /\ OptFrame
    \/ OptGiveUp /\ OptFrame

SpecOpt == InitOpt /\ [][NextOpt]_vars

InitExtract ==
    /\ HAS_PIL = TRUE
    /\ ext_content_len \in ContentLenValues
    /\ ext_token \in BOOLEAN
    /\ ext_max_retries \in 1..max_retries_default
    /\ ext_attempt = 0 /\ ext_responses = <<>> /\ ext_slept = <<>>
    /\ ext_wait_time = 0 /\ ext_last_error = "None" /\ ext_api = "idle"
    /\ ext_exc = "None" /\ ext_text = NoText
    /\ ext_pc = "start"
    /\ IdleFilter /\ IdleOpt /\ IdleSeq /\ IdlePar /\ IdleSel /\ IdleSec
    /\ IdleEst
    /\ IdleRub
    /\ IdleVal
    /\ IdleGd
    /\ IdleFb
    /\ IdleDep

\* what the extractor leaves alone
ExtFrame == UNCHANGED <<HAS_PIL, fltVars, optVars, seqVars, parVars, selVars,
                       secVars,
                       estVars,
                       rubVars,
                       valVars,
                       gdVars,
                       fbVars,
                       depVars>>

NextExtract ==
    \/ ExtShortContent /\ ExtFrame
    \/ ExtBuildPrompt /\ ExtFrame
    \/ ApiEnter /\ ExtFrame
    \/ ApiRequest /\ ExtFrame
    \/ ApiBackoff /\ ExtFrame
    \/ ExtApiReturned /\ ExtFrame
    \/ ExtApiRaised /\ ExtFrame
    \/ ExtExceptFallback /\ ExtFrame
    \/ ExtReturn /\ ExtFrame

SpecExtract == InitExtract /\ [][NextExtract]_vars

InitSeq ==
    /\ HAS_PIL \in BOOLEAN
    /\ seq_n \in 0..MaxCriteria
    /\ seq_token \in BOOLEAN
    /\ seq_resize_dim \in ResizeDimValues
    /\ seq_i = 1
    /\ seq_image_paths = <<>> /\ seq_text_size = 0 /\ seq_request = NoRequest
    /\ seq_metadata = NoMetadata /\ seq_debug_calls = <<>> /\ seq_faults = <<>>
    /\ all_feedback_json = <<>> /\ seq_written = NoFile
    /\ seq_pc = "loop"
    /\ IdleFilter /\ IdleOpt /\ IdleExt /\ IdlePar /\ IdleSel /\ IdleSec
    /\ IdleEst
    /\ IdleRub
    /\ IdleVal
    /\ IdleGd
    /\ IdleFb
    /\ IdleDep

\* what the sequential orchestrator leaves alone
SeqFrame == UNCHANGED <<HAS_PIL, fltVars, optVars, extVars, parVars, selVars,
                       secVars,
                       estVars,
                       rubVars,
                       valVars,
                       gdVars,
                       fbVars,
                       depVars>>

NextSeq ==
    \/ SeqAnalyze /\ SeqFrame
    \/ SeqBuildPrompt /\ SeqFrame
    \/ SeqBuildPromptFails /\ SeqFrame
    \/ SeqCallWithoutToken /\ SeqFrame
    \/ SeqCallApi /\ SeqFrame
    \/ SeqCallApiFails /\ SeqFrame
    \/ SeqParse /\ SeqFrame
    \/ SeqParseFails /\ SeqFrame
    \/ SeqWrite /\ SeqFrame

SpecSeq == InitSeq /\ [][NextSeq]_vars

\* line 316 done: one future per criterion, none started yet
InitPar ==
    /\ HAS_PIL = TRUE
    /\ par_n \in 0..MaxCriteria
    /\ par_token \in BOOLEAN
    /\ par_future = [i \in 1..par_n |-> "pending"]
    /\ par_finished = {} /\ par_waiter = <<>> /\ par_yielded = {}
    /\ par_results = <<>> /\ par_feedback = NoFeedback
    /\ par_pc = "submitted"
    /\ IdleFilter /\ IdleOpt /\ IdleExt /\ IdleSeq /\ IdleSel /\ IdleSec
    /\ IdleEst
    /\ IdleRub
    /\ IdleVal
    /\ IdleGd
    /\ IdleFb
    /\ IdleDep

\* what the parallel orchestrator leaves alone
ParFrame == UNCHANGED <<HAS_PIL, fltVars, optVars, extVars, seqVars, selVars,
                       secVars,
                       estVars,
                       rubVars,
                       valVars,
                       gdVars,
                       fbVars,
                       depVars>>

NextPar ==
    \/ WorkerStart /\ ParFrame
    \/ WorkerReturns /\ ParFrame
    \/ WorkerRaises /\ ParFrame
    \/ WorkerExits /\ ParFrame
    \/ MainAsCompleted /\ ParFrame
    \/ MainCollectFinished /\ ParFrame
    \/ MainCollectCompleted /\ ParFrame
    \/ MainCombine /\ ParFrame

SpecPar == InitPar /\ [][NextPar]_vars

InitSelect ==
    /\ HAS_PIL = TRUE
    /\ sel_all_figures \in
          {f \in SeqsUpTo(Figures, MaxFigures) :
              \A i, j \in 1..Len(f) : i # j => f[i] # f[j]}
    /\ sel_criterion \in {c \in Criteria : c.id = "methods"}
    /\ sel_extracted_text \in SelectorTexts
    /\ \E priority \in PriorityValues, max_images \in MaxImagesValues,
          budget \in TokenBudgetValues :
          sel_vision_config =
             VisionConfig(priority, max_images, budget, 0, sel_criterion)
    /\ sel_relevant_images = <<>> /\ sel_limited_paths = <<>>
    /\ sel_final_paths = <<>>
    /\ sel_pc = "embeds"
    /\ IdleFilter /\ IdleOpt /\ IdleExt /\ IdleSeq /\ IdlePar /\ IdleSec
    /\ IdleEst
    /\ IdleRub
    /\ IdleVal
    /\ IdleGd
    /\ IdleFb
    /\ IdleDep

\* what the image selector leaves alone
SelFrame == UNCHANGED <<HAS_PIL, fltVars, optVars, extVars, seqVars, parVars,
                       secVars,
                       estVars,
                       rubVars,
                       valVars,
                       gdVars,
                       fbVars,
                       depVars>>

NextSelect ==
    \/ SelEmbedFigures /\ SelFrame
    \/ SelGeneratedFigures /\ SelFrame
    \/ SelKeywordFigures /\ SelFrame
    \/ SelSortAndLimit /\ SelFrame
    \/ SelFilterAndReturn /\ SelFrame

SpecSelect == InitSelect /\ [][NextSelect]_vars

InitSections ==
    /\ HAS_PIL = TRUE
    /\ \E content \in SeqsUpTo(ContentItems, MaxItems),
          notebook_outputs \in NotebookOutputLists :
          sec_report = [content |-> content,
                        notebook_outputs |-> notebook_outputs,
                        figures |-> ReportFigures]
    /\ sec_criterion \in Criteria
    /\ \E enabled \in BOOLEAN, enabled_for \in EnabledForValues :
          sec_vision = [enabled |-> enabled,
                        enabled_for_criteria |-> enabled_for]
    /\ sec_extracted_text = <<>> /\ sec_augmented_text = <<>>
    /\ sec_image_paths = <<>> /\ sec_llm_calls = 0 /\ sec_selector_calls = 0
    /\ sec_pc = "start"
    /\ IdleFilter /\ IdleOpt /\ IdleExt /\ IdleSeq /\ IdlePar /\ IdleSel
    /\ IdleEst
    /\ IdleRub
    /\ IdleVal
    /\ IdleGd
    /\ IdleFb
    /\ IdleDep

\* what the section extractor leaves alone
SecFrame == UNCHANGED <<HAS_PIL, fltVars, optVars, extVars, seqVars, parVars,
                       selVars,
                       estVars,
                       rubVars,
                       valVars,
                       gdVars,
                       fbVars,
                       depVars>>

NextSections ==
    \/ SecShortContent /\ SecFrame
    \/ SecExtracted /\ SecFrame
    \/ SecExtractionFails /\ SecFrame
    \/ SecAugment /\ SecFrame
    \/ SecAugmentRaises /\ SecFrame
    \/ SecSelectImages /\ SecFrame
    \/ SecNoImages /\ SecFrame

SpecSections == InitSections /\ [][NextSections]_vars

InitEstimate ==
    /\ HAS_PIL \in BOOLEAN
    /\ est_file \in EstFiles
    /\ est_max_dimension \in EstMaxDimensionValues
    /\ est_tokens = 0
    /\ est_pc = "call"
    /\ IdleFilter /\ IdleOpt /\ IdleExt /\ IdleSeq /\ IdlePar /\ IdleSel
    /\ IdleSec
    /\ IdleRub
    /\ IdleVal
    /\ IdleGd
    /\ IdleFb
    /\ IdleDep

\* what estimate_image_tokens leaves alone
EstFrame == UNCHANGED <<HAS_PIL, fltVars, optVars, extVars, seqVars, parVars,
                       selVars, secVars,
                       rubVars,
                       valVars,
                       gdVars,
                       fbVars,
                       depVars>>

NextEstimate ==
    \/ EstMissing /\ EstFrame
    \/ EstWithoutPil /\ EstFrame
    \/ EstUnreadable /\ EstFrame
    \/ EstTiles /\ EstFrame

SpecEstimate == InitEstimate /\ [][NextEstimate]_vars

InitRubric ==
    /\ HAS_PIL = TRUE
    /\ rub_criteria \in
          SeqsUpTo([name : RubricNames, weight : RubricWeights], MaxCriteria)
    /\ rub_md = <<>> /\ rub_pos = 0 /\ rub_recovered = <<>>
    /\ rub_pc = "yaml"
    /\ IdleFilter /\ IdleOpt /\ IdleExt /\ IdleSeq /\ IdlePar /\ IdleSel
    /\ IdleSec
    /\ IdleVal
    /\ IdleGd
    /\ IdleFb
    /\ IdleDep /\ IdleEst

\* what the rubric converter leaves alone
RubFrame == UNCHANGED <<HAS_PIL, fltVars, optVars, extVars, seqVars, parVars,
                       selVars, secVars, estVars,
                       valVars,
                       gdVars,
                       fbVars,
                       depVars>>

NextRubric ==
    \/ RubYamlToMarkdown /\ RubFrame
    \/ RubCriterionMatched /\ RubFrame
    \/ RubWriteYaml /\ RubFrame

SpecRubric == InitRubric /\ [][NextRubric]_vars

InitValidate ==
    /\ HAS_PIL = TRUE
    /\ val_all_errors \in
          [{SortedFiles[i] : i \in 1..Len(SortedFiles)} -> FindingSets]
    /\ val_strict \in BOOLEAN
    /\ val_i = 1
    /\ val_total_errors = 0 /\ val_total_warnings = 0
    /\ val_has_syntax_errors = FALSE /\ val_has_schema_errors = FALSE
    /\ val_exit_code = -1 /\ val_pc = "files"
    /\ IdleFilter /\ IdleOpt /\ IdleExt /\ IdleSeq /\ IdlePar /\ IdleSel
    /\ IdleSec
    /\ IdleGd
    /\ IdleFb
    /\ IdleDep /\ IdleEst /\ IdleRub

\* what print_summary leaves alone
ValFrame == UNCHANGED <<HAS_PIL, fltVars, optVars, extVars, seqVars, parVars,
                       selVars, secVars, estVars, rubVars,
                       gdVars,
                       fbVars,
                       depVars>>

NextValidate ==
    \/ ValFileValid /\ ValFrame
    \/ ValFileFindings /\ ValFrame
    \/ ValFilesDone /\ ValFrame
    \/ ValStrictWithWarnings /\ ValFrame
    \/ ValNoErrors /\ ValFrame
    \/ ValFailed /\ ValFrame

SpecValidate == InitValidate /\ [][NextValidate]_vars

InitGuidance ==
    /\ HAS_PIL = TRUE
    /\ \E names \in {n \in SeqsUpTo(SectionNames, 3) : NoDuplicates(n)},
          appendix \in BOOLEAN :
          gd_lines = Guidance(names, appendix)
    /\ gd_criterion_name \in SectionNames \cup {"Results"}
    /\ gd_part1_end = 0 /\ gd_i = 0
    /\ gd_criterion_start = 0 /\ gd_criterion_end = 0
    /\ gd_result = <<>> /\ gd_pc = "parts"
    /\ IdleFilter /\ IdleOpt /\ IdleExt /\ IdleSeq /\ IdlePar /\ IdleSel
    /\ IdleSec
    /\ IdleFb
    /\ IdleDep /\ IdleEst /\ IdleRub /\ IdleVal

\* what get_criterion_guidance leaves alone
GdFrame == UNCHANGED <<HAS_PIL, fltVars, optVars, extVars, seqVars, parVars,
                      selVars, secVars, estVars, rubVars, valVars,
                       fbVars,
                       depVars>>

NextGuidance ==
    \/ GdFindParts /\ GdFrame
    \/ GdSectionStart /\ GdFrame
    \/ GdSectionEnd /\ GdFrame
    \/ GdOtherLine /\ GdFrame
    \/ GdLastLine /\ GdFrame
    \/ GdCombine /\ GdFrame

SpecGuidance == InitGuidance /\ [][NextGuidance]_vars

InitFallback ==
    /\ HAS_PIL = TRUE
    /\ fb_responses \in [primary : ApiOutcomes, fallback : ApiOutcomes]
    /\ fb_calls = <<>> /\ fb_feedback = "none" /\ fb_exit_code = -1
    /\ fb_pc = "primary"
    /\ IdleFilter /\ IdleOpt /\ IdleExt /\ IdleSeq /\ IdlePar /\ IdleSel
    /\ IdleSec
    /\ IdleDep /\ IdleEst /\ IdleRub /\ IdleVal /\ IdleGd

\* what main of ai_feedback.py leaves alone
FbFrame == UNCHANGED <<HAS_PIL, fltVars, optVars, extVars, seqVars, parVars,
                      selVars, secVars, estVars, rubVars, valVars, gdVars,
                       depVars>>

NextFallback ==
    \/ FbPrimaryAnswers /\ FbFrame
    \/ FbPrimaryExits /\ FbFrame
    \/ FbPrimaryRaises /\ FbFrame
    \/ FbFallbackAnswers /\ FbFrame
    \/ FbFallbackFails /\ FbFrame
    \/ FbSave /\ FbFrame

SpecFallback == InitFallback /\ [][NextFallback]_vars

\* the rubric has passed validate_rubric: it has at least one criterion
InitDeploy ==
    /\ HAS_PIL = TRUE
    /\ dep_enabled \in BOOLEAN
    /\ dep_enabled_for \in SeqsUpTo(CriterionRefs, MaxRefs)
    /\ dep_rubric \in {r \in SeqsUpTo(DeployCriteria, MaxCriteria) :
                          r # <<>> /\ NoDuplicates(r)}
    /\ dep_k = 0 /\ dep_accepted = <<>> /\ dep_issues = <<>>
    /\ dep_pc = "start"
    /\ IdleFilter /\ IdleOpt /\ IdleExt /\ IdleSeq /\ IdlePar /\ IdleSel
    /\ IdleSec /\ IdleEst /\ IdleRub /\ IdleVal /\ IdleGd /\ IdleFb

\* what validate_vision_config leaves alone
DepFrame == UNCHANGED <<HAS_PIL, fltVars, optVars, extVars, seqVars, parVars,
                       selVars, secVars, estVars, rubVars, valVars, gdVars,
                       fbVars>>

NextDeploy ==
    \/ DepVisionDisabled /\ DepFrame
    \/ DepEmptyList /\ DepFrame
    \/ DepCollect /\ DepFrame
    \/ DepWildcard /\ DepFrame
    \/ DepValidRef /\ DepFrame
    \/ DepInvalidRef /\ DepFrame
    \/ DepReturn /\ DepFrame

SpecDeploy == InitDeploy /\ [][NextDeploy]_vars

----------------------------------------------------------------------------
(* Properties of filter_images_by_token_budget *)

RECURSIVE TokensOf(_, _)
\* the estimated tokens of a list of paths, summed
TokensOf(paths, md) ==
    IF paths = <<>> THEN 0
    ELSE estimate_image_tokens(Head(paths), md) + TokensOf(Tail(paths), md)

\* the position of the first image that takes the running total above the
\* budget, or one past the end of the list when there is none
FirstOverBudget(paths, budget, md) ==
    LET over == {k \in 1..Len(paths) : TokensOf(SubSeq(paths, 1, k), md) > budget}
    IN  IF over = {} THEN Len(paths) + 1
        ELSE CHOOSE k \in over : \A j \in over : k <= j

\* C5 as stated: for every list, every max_tokens and every max_dimension the
\* returned total is the sum of the estimated tokens of the selected paths and
\* is at most max_tokens.
C5_TotalWithinAnyBudget ==
    flt_pc = "done" =>
        /\ flt_total_tokens = TokensOf(flt_selected, flt_max_dimension)
        /\ flt_total_tokens <= flt_max_tokens

\* C5 amended: the returned total is the sum of the estimated tokens of the
\* selected paths; it is at most max_tokens for every max_tokens >= 0, and for
\* a negative max_tokens nothing is selected and the total is 0.
C5_TotalWithinBudget ==
    flt_pc = "done" =>
        /\ flt_total_tokens = TokensOf(flt_selected, flt_max_dimension)
        /\ flt_max_tokens >= 0 => flt_total_tokens <= flt_max_tokens
        /\ flt_max_tokens < 0 => flt_selected = <<>> /\ flt_total_tokens = 0

\* a run that selected two images or more and stopped at one over the budget
C5_Witness ==
    /\ flt_pc = "done"
    /\ Len(flt_selected) >= 2
    /\ Len(flt_selected) < Len(flt_image_paths)
    /\ flt_total_tokens > 0

\* C18 as stated: an empty input list with any budget, and a budget of zero
\* with any input list, give ([], 0).
C18_EmptyForZeroBudget ==
    (flt_pc = "done" /\ (flt_image_paths = <<>> \/ flt_max_tokens = 0)) =>
        flt_selected = <<>> /\ flt_total_tokens = 0

\* C6: the selected list is the prefix of the input that ends right before the
\* first image whose estimated tokens take the running total above max_tokens;
\* no later image is selected, even one that fits on its own.
C6_GreedyPrefix ==
    flt_pc = "done" =>
        flt_selected =
            SubSeq(flt_image_paths, 1,
                   FirstOverBudget(flt_image_paths, flt_max_tokens,
                                   flt_max_dimension) - 1)

\* a run cut at an image over the budget, with a later image that would fit
C6_Witness ==
    /\ flt_pc = "done"
    /\ flt_selected # <<>>
    /\ Len(flt_selected) + 1 < Len(flt_image_paths)
    /\ \E j \in (Len(flt_selected) + 2)..Len(flt_image_paths) :
          /\ estimate_image_tokens(flt_image_paths[j], flt_max_dimension) > 0
          /\ flt_total_tokens
               + estimate_image_tokens(flt_image_paths[j], flt_max_dimension)
             <= flt_max_tokens

----------------------------------------------------------------------------
(* Properties of optimize_images_for_payload *)

RECURSIVE SizesOf(_)
\* the size_bytes of a list of records, summed
SizesOf(records) ==
    IF records = <<>> THEN 0
    ELSE Head(records).size_bytes + SizesOf(Tail(records))

\* the records of the first n paths encoded at a step
RecordsAt(paths, n, step) == [i \in 1..n |-> OptimizedImage(paths[i], step)]

\* every one of the first n paths can be encoded, and together they are
\* within the available bytes at the step
SubsetFits(paths, n, step, available) ==
    /\ HAS_PIL
    /\ \A i \in 1..n : Encodable(paths[i])
    /\ SizesOf(RecordsAt(paths, n, step)) <= available

\* the combinations (drop count, step) in the order of the search: subsets
\* from the largest to one image, and for each the steps in their order
Combinations(paths) == (0..(Len(paths) - 1)) \X (1..5)
Before(c, d) == c[1] < d[1] \/ (c[1] = d[1] /\ c[2] <= d[2])

FittingCombinations(paths, resolution, available) ==
    {c \in Combinations(paths) :
        SubsetFits(paths, Len(paths) - c[1],
                   optimization_steps(resolution)[c[2]], available)}

\* C7: a non-empty returned list keeps text + images + JSON overhead within
\* max_payload_mb MB, each record's size_bytes being the length of its data URI.
C7_PayloadWithinCeiling ==
    (opt_pc = "done" /\ opt_result # <<>>) =>
        /\ opt_text_size + SizesOf(opt_result) + JSON_OVERHEAD_BYTES
             <= MaxPayloadBytes(opt_payload_tenths)
        /\ \A i \in 1..Len(opt_result) :
              opt_result[i].size_bytes = opt_result[i].base64_len

\* two images or more returned after a degradation
C7_Witness ==
    /\ opt_pc = "done"
    /\ Len(opt_result) >= 2
    /\ opt_result[1].quality < 85
    /\ opt_text_size > 0

\* C8: the result is the records of the first combination, in the order
\* subsets n, n-1, ..., 1 and within a subset the five steps, at which every
\* image of the subset is encoded within the available bytes; it is empty
\* when there is no such combination.
C8_FirstFit ==
    opt_pc = "done" =>
        LET fits == FittingCombinations(opt_image_paths, opt_resolution,
                                        opt_available)
        IN  IF fits = {} THEN opt_result = <<>>
            ELSE LET c == CHOOSE c \in fits : \A d \in fits : Before(c, d)
                 IN  opt_result =
                        RecordsAt(opt_image_paths, Len(opt_image_paths) - c[1],
                                  optimization_steps(opt_resolution)[c[2]])

\* a run that went through every step of the full list, dropped an image and
\* returned the rest at a degraded step
C8_Witness ==
    /\ opt_pc = "done"
    /\ opt_drop_count >= 1
    /\ opt_step > 1
    /\ Len(opt_result) >= 2
    /\ \A i \in 1..Len(opt_image_paths) : Encodable(opt_image_paths[i])

\* C9 as stated: a path that cannot be opened or encoded is the only one left
\* out; the other images are returned whenever they fit, wherever the bad
\* path stands in the list.
C9_OnlyBadImageLeftOut ==
    opt_pc = "done" =>
        LET good == SelectSeq(opt_image_paths, Encodable)
        IN  (/\ good # opt_image_paths
             /\ SubsetFits(good, Len(good),
                           optimization_steps(opt_resolution)[1], opt_available))
            => [i \in 1..Len(opt_result) |-> opt_result[i].path] = good

\* C16: when every input image, encoded at quality 85 and the initial
\* resolution, fits together with the others within the available bytes,
\* every image is returned, in input order, with quality 85 and the initial
\* resolution.
C16_NoNeedlessDegradation ==
    (/\ opt_pc = "done"
     /\ opt_image_paths # <<>>
     /\ SubsetFits(opt_image_paths, Len(opt_image_paths),
                   [quality |-> 85, resolution |-> opt_resolution],
                   opt_available))
    => /\ [i \in 1..Len(opt_result) |-> opt_result[i].path] = opt_image_paths
       /\ \A i \in 1..Len(opt_result) :
             /\ opt_result[i].quality = 85
             /\ opt_result[i].resolution = opt_resolution

\* three images returned untouched beside a text of 2.5 MB
C16_Witness ==
    /\ opt_pc = "done"
    /\ Len(opt_result) = 3
    /\ opt_text_size > 0
    /\ opt_result[1].quality = 85
    /\ opt_drop_count = 0 /\ opt_step = 1

\* C17: the call always comes to a return, never to an exception: until it
\* has returned one of its steps can be taken; it returns the empty list for
\* an empty input, and when no subset fits at any step, be the available
\* bytes positive, zero or negative.
C17_EmptyWhenNothingFits ==
    /\ opt_pc \in {"idle", "start", "image", "done"}
    /\ opt_pc \in {"start", "image"} =>
          ENABLED (OptEarlyReturn \/ OptBegin \/ OptImage \/ OptSuccess
                     \/ OptNextStep \/ OptDropImage \/ OptGiveUp)
    /\ (/\ opt_pc = "done"
        /\ \/ opt_image_paths = <<>>
           \/ opt_available <= 0
           \/ FittingCombinations(opt_image_paths, opt_resolution,
                                  opt_available) = {})
       => opt_result = <<>>

\* every step was tried on every subset of valid images, beside a text that
\* leaves less than nothing, and the empty list was returned
C17_Witness ==
    /\ opt_pc = "done"
    /\ opt_available < 0
    /\ Len(opt_image_paths) >= 2
    /\ \A i \in 1..Len(opt_image_paths) : Encodable(opt_image_paths[i])
    /\ opt_drop_count = Len(opt_image_paths) - 1
    /\ opt_step = 5
    /\ opt_result = <<>>

----------------------------------------------------------------------------
(* Properties of the extraction step *)

C4_BoundedRetry ==
    LET n == Len(ext_responses)
    IN  /\ n <= ext_max_retries
        /\ \A i \in 1..(n - 1) : ext_responses[i].kind = "429"
        /\ n >= 1 => Len(ext_slept) >= n - 1
        /\ ext_api # "returned_none"
        /\ ext_api = "returned" =>
              /\ ext_responses[n].kind = "ok"
              /\ ext_text = LlmText(ext_responses[n].len)
        /\ ext_api = "raised" => ext_exc # "None"
        /\ (n >= 1 /\ ext_responses[n].kind \notin {"ok", "429"}) =>
              ext_api = "raised"
        /\ (n = ext_max_retries /\ n >= 1 /\ ext_responses[n].kind = "429") =>
              ext_api = "raised" /\ ext_exc = "HTTPError"
        /\ (ext_api \in {"enter", "loop", "backoff"}) => ENABLED (ApiEnter \/ ApiRequest \/ ApiBackoff)
        /\ (ext_pc = "done" /\ ext_api = "raised") =>
              ext_text = ContentPrefix(Min(ext_content_len, 8000))

\* three requests, each answered 429, then the fallback of the caller
C4_Witness ==
    /\ ext_pc = "done"
    /\ ext_max_retries = 3
    /\ Len(ext_responses) = 3
    /\ ext_responses[3].kind = "429"
    /\ Len(ext_slept) = 2
    /\ ext_text = ContentPrefix(Min(ext_content_len, 8000))

----------------------------------------------------------------------------
(* Properties of the sequential orchestrator *)

\* C1: whatever fails during the analyses, the list written at the end has
\* one entry per criterion, entry i for criterion i; the entry of a
\* criterion whose analysis raised has success = false and a feedback that
\* carries the error, and every criterion after it is analysed too.
C1_EveryCriterionListed ==
    seq_pc = "done" =>
        /\ Len(seq_written) = seq_n
        /\ Len(seq_faults) = seq_n
        /\ \A i \in 1..seq_n :
              /\ seq_written[i].criterion = i
              /\ seq_faults[i] = "None" =>
                    /\ seq_written[i].success
                    /\ seq_written[i].feedback = <<"json">>
              /\ seq_faults[i] # "None" =>
                    /\ ~seq_written[i].success
                    /\ seq_written[i].feedback =
                          <<"Error analyzing this criterion", seq_faults[i]>>

\* a run whose first criterion failed and whose second was graded
C1_Witness ==
    /\ seq_pc = "done"
    /\ seq_n >= 2
    /\ seq_faults[1] # "None"
    /\ seq_written[2].success

RECURSIVE LensOf(_)
\* the lengths of the data URIs of a list of images, summed
LensOf(images) ==
    IF images = <<>> THEN 0
    ELSE Head(images).base64_len + LensOf(Tail(images))

\* C10 as stated: the images of a grading request went through the payload
\* optimizer, so that text + images + JSON overhead stays within the
\* payload ceiling of 2.5 MB.
C10_RequestWithinCeiling ==
    (seq_request.sent /\ seq_request.images # <<>>) =>
        seq_request.text_size + LensOf(seq_request.images) + JSON_OVERHEAD_BYTES
            <= MaxPayloadBytes(MAX_PAYLOAD_TENTHS)

----------------------------------------------------------------------------
(* Properties of the parallel orchestrator *)

\* C2 as stated: in whatever order the analyses complete, the combined
\* feedback holds exactly one entry per criterion, and entry k is the one of
\* the k-th criterion of the rubric.
C2_RubricOrder ==
    par_pc = "done" =>
        /\ Len(par_feedback) = par_n
        /\ \A k \in 1..par_n : par_feedback[k].criterion = k

----------------------------------------------------------------------------
(* Properties of the image selector *)

Qualifies(strategy, fig) ==
    /\ validate_image_file(fig.path)
    /\ CASE strategy = 1 -> fig.source \in EmbedsIn(sel_extracted_text)
         [] strategy = 2 -> fig.source = "generated:unmapped"
         [] OTHER ->
               /\ fig.source \in {"markdown:setup", "markdown:method"}
               /\ \E term \in SearchTerms(sel_criterion) :
                     IsSubstring(Lower(term), Lower(fig.caption))

\* the places (strategy, position) at which a figure of this path qualifies,
\* numbered in the order the selector visits them
Encounters(path) ==
    UNION { {strategy * (Len(sel_all_figures) + 1) + k :
                k \in {n \in 1..Len(sel_all_figures) :
                          /\ sel_all_figures[n].path = path
                          /\ Qualifies(strategy, sel_all_figures[n])}} :
            strategy \in 1..3 }

FirstEncounter(path) ==
    CHOOSE e \in Encounters(path) : \A o \in Encounters(path) : e <= o

\* the figure that gives the path its rank: the figure of its first
\* encounter, or the last figure of the path that an embed of the text names
\* when there is one
RankingFigure(path) ==
    LET named == {k \in 1..Len(sel_all_figures) :
                     /\ sel_all_figures[k].path = path
                     /\ Qualifies(1, sel_all_figures[k])}
    IN  IF named # {}
        THEN sel_all_figures[CHOOSE k \in named : \A n \in named : n <= k]
        ELSE sel_all_figures[FirstEncounter(path) % (Len(sel_all_figures) + 1)]

RankOf(path) ==
    get_image_priority(RankingFigure(path), sel_vision_config.image_priority)

\* C20: the returned paths are in ascending order of priority rank (the index
\* of the first image_priority keyword that is a case-insensitive substring
\* of '<filename> <caption>', the length of the list when there is none), and
\* paths of equal rank are in the order the selector first met them.
C20_RankOrder ==
    sel_pc = "done" =>
        \A i, j \in 1..Len(sel_final_paths) :
            i < j =>
               \/ RankOf(sel_final_paths[i]) < RankOf(sel_final_paths[j])
               \/ /\ RankOf(sel_final_paths[i]) = RankOf(sel_final_paths[j])
                  /\ FirstEncounter(sel_final_paths[i])
                        < FirstEncounter(sel_final_paths[j])

\* three images are returned, one in front of an image met before it and two
\* of equal rank
C20_Witness ==
    /\ sel_pc = "done"
    /\ Len(sel_final_paths) = 3
    /\ FirstEncounter(sel_final_paths[1]) > FirstEncounter(sel_final_paths[2])
    /\ RankOf(sel_final_paths[2]) = RankOf(sel_final_paths[3])
    /\ RankOf(sel_final_paths[1]) = 0

----------------------------------------------------------------------------
(* Properties of the text and the images of a criterion *)

Elements(seq) == {seq[i] : i \in 1..Len(seq)}

\* the references the notebook outputs of the report are for
OutputRefs == {nb.embed : nb \in Elements(sec_report.notebook_outputs)}

\* the strings are the values of items of the text, in this order
ContainsInOrder(text, strs) ==
    \E at \in [1..Len(strs) -> 1..Len(text)] :
        /\ \A i \in 1..Len(strs) : text[at[i]].val = strs[i]
        /\ \A i, j \in 1..Len(strs) : i < j => at[i] < at[j]

\* C11: the text extract_sections_for_criterion_ai returns, whether it is the
\* short content, the answer of the extraction model or the truncated
\* content, holds no raw {{< embed REF >}} token.
C11_NoRawEmbedReturned ==
    sec_pc = "done" => EmbedsIn(sec_augmented_text) = {}

\* C12: for every token {{< embed X >}} of the text whose X is the embed
\* field of a notebook output, the text augment_with_notebook_outputs returns
\* does not hold the token; it holds the html_as_markdown, markdown, text and
\* latex contents of the output, in this order, when there are any, and a
\* non-empty placeholder made from the cell id when there are none.
C12_EmbedReplacedByOutputs ==
    sec_pc \in {"augmented", "done"} =>
        \A nb \in Elements(sec_report.notebook_outputs) :
            nb.embed \in EmbedsIn(sec_extracted_text) =>
               /\ nb.embed \notin EmbedsIn(sec_augmented_text)
               /\ LET contents == nb.outputs.html_as_markdown \o
                                  nb.outputs.markdown \o nb.outputs.text \o
                                  nb.outputs.latex
                  IN  IF contents # <<>>
                      THEN ContainsInOrder(sec_augmented_text, contents)
                      ELSE \E item \in Elements(sec_augmented_text) :
                              /\ item.kind = "label"
                              /\ item.val = CellLabel(nb.cell_id)
                              /\ item.val # ""

\* C13: when the selector runs, every figure whose source is the REF of a
\* token {{< embed REF >}} of the extraction text and whose file is valid is
\* among the images selected (the report's figures all fit the limits), also
\* when a notebook output matches the REF.
C13_EmbeddedFiguresSelected ==
    (sec_pc = "done" /\ sec_selector_calls > 0) =>
        \A fig \in Elements(sec_report.figures) :
            (/\ fig.source \in EmbedsIn(sec_extracted_text)
             /\ validate_image_file(fig.path))
            => fig.path \in Elements(sec_image_paths)

----------------------------------------------------------------------------
(* Properties of get_image_priority *)

\* the positions of the keywords of the priority list that are in the
\* filename or the caption of the figure
MatchingKeywords(fig) ==
    {i \in 1..Len(sel_vision_config.image_priority) :
        InSearchText(sel_vision_config.image_priority[i], fig)}

----------------------------------------------------------------------------
(* Properties of estimate_image_tokens *)

\* the smallest number of cells of 512 that cover n
Cells(n) == IF n % 512 = 0 THEN n \div 512 ELSE (n \div 512) + 1

\* (w, h) made to fit a square box, the aspect kept; untouched when it fits
FitInto(w, h, box) ==
    IF w <= box /\ h <= box THEN <<w, h>>
    ELSE IF w > h THEN <<box, (h * box) \div w>>
         ELSE <<(w * box) \div h, box>>

\* (w', h'): after the max_dimension downscale and the clamp
Downscaled(w, h, md) ==
    LET r == IF md = 0 THEN <<w, h>> ELSE FitInto(w, h, md)
    IN  FitInto(r[1], r[2], 2048)

\* C22: for a readable image of width w and height h estimate_image_tokens
\* returns 85 + 170 * ceil(w'/512) * ceil(h'/512), (w', h') being (w, h)
\* after the max_dimension downscale and the clamp into 2048 x 2048; without
\* max_dimension 512x512 gives 255, 1024x1024 gives 765, 2048x2048 gives 2805
\* and 512x1024 or 1024x512 gives 425.
C22_TileFormula ==
    (est_pc = "done" /\ HAS_PIL /\ est_file.exists /\ est_file.readable) =>
        LET d == Downscaled(est_file.width, est_file.height, est_max_dimension)
            sized(w, h) == /\ est_file.width = w /\ est_file.height = h
                           /\ est_max_dimension = 0
        IN  /\ est_tokens = 85 + 170 * Cells(d[1]) * Cells(d[2])
            /\ sized(512, 512) => est_tokens = 255
            /\ sized(1024, 1024) => est_tokens = 765
            /\ sized(2048, 2048) => est_tokens = 2805
            /\ sized(512, 1024) \/ sized(1024, 512) => est_tokens = 425

\* an image of 4096 x 3000 with max_dimension 3000 is downscaled, then
\* clamped to 2048 x 1499: 4 x 3 tiles
C22_Witness ==
    /\ est_pc = "done" /\ HAS_PIL
    /\ est_file.width = 4096 /\ est_file.height = 3000
    /\ est_max_dimension = 3000
    /\ est_tokens = 2125

----------------------------------------------------------------------------
(* Properties of the degradation steps *)

\* C24: for every configured initial resolution the (quality, resolution)
\* steps optimize_images_for_payload tries go from least to most aggressive:
\* the step being tried has neither a higher quality nor a higher resolution
\* than the step tried before it.
C24_StepsNeverLessAggressive ==
    (opt_pc = "image" /\ opt_step > 1) =>
        LET steps == optimization_steps(opt_resolution)
        IN  /\ steps[opt_step].quality <= steps[opt_step - 1].quality
            /\ steps[opt_step].resolution <= steps[opt_step - 1].resolution

----------------------------------------------------------------------------
(* Properties of the rubric converter *)

\* C25: for every rubric yaml_to_markdown accepts, the rubric that
\* markdown_to_yaml recovers from its Markdown has as many criteria and,
\* position by position, the same names and weights.
C25_RoundTrip ==
    rub_pc = "done" =>
        /\ Len(rub_recovered) = Len(rub_criteria)
        /\ \A i \in 1..Len(rub_recovered) :
              /\ rub_recovered[i].name = rub_criteria[i].name
              /\ rub_recovered[i].weight.tenths = rub_criteria[i].weight.tenths

----------------------------------------------------------------------------
(* Properties of the exit code of validate_config.py *)

SomeFileHas(kind) == \E f \in DOMAIN val_all_errors : kind \in val_all_errors[f]

\* C26: the exit code print_summary computes is 0 exactly when no file has
\* an error and, with --strict, no warning either; 1 when some file has a
\* YAML syntax error or is missing; 2 when there are schema errors and no
\* syntax error; 3 when the run fails because of warnings that --strict
\* promotes to errors.
C26_ExitCode ==
    val_pc = "done" =>
        LET errors == SomeFileHas("syntax") \/ SomeFileHas("schema")
            promoted == val_strict /\ SomeFileHas("warning")
        IN  /\ val_exit_code = 0 <=> (~errors /\ ~promoted)
            /\ SomeFileHas("syntax") => val_exit_code = 1
            /\ (SomeFileHas("schema") /\ ~SomeFileHas("syntax"))
               => val_exit_code = 2
            /\ (promoted /\ ~errors) => val_exit_code = 3

----------------------------------------------------------------------------
(* Properties of get_criterion_guidance *)

\* C27: for a guidance in the Part I / Part II format the result is Part I
\* followed by exactly the section of this criterion, from its header
\* '## CRITERION: <name>' up to the next criterion header or major section,
\* never the section of another criterion, also when the name of one
\* criterion is part of the name of another; it is Part I alone when no
\* section belongs to the criterion.
C27_OwnSectionOnly ==
    gd_pc = "done" =>
        LET part1 == <<Line("part1", ""), Line("text", "general")>>
            own == \E k \in 1..Len(gd_lines) :
                      gd_lines[k] = Line("criterion", gd_criterion_name)
        IN  gd_result =
               IF own
               THEN part1 \o <<Separator,
                               Line("criterion", gd_criterion_name),
                               Line("text", gd_criterion_name)>>
               ELSE part1

----------------------------------------------------------------------------
(* Properties of the fallback model of scripts/ai_feedback.py *)

\* C28: whenever the call with the primary model fails (HTTP error, rate
\* limit, authentication failure, timeout, connection error or unexpected
\* response) main calls the fallback model once before it gives up; the
\* process exits non-zero only after both calls have failed.
C28_FallbackBeforeGivingUp ==
    fb_pc = "exited" =>
        /\ fb_responses.primary # "ok" => fb_calls = <<"primary", "fallback">>
        /\ fb_exit_code # 0 =>
              /\ fb_calls = <<"primary", "fallback">>
              /\ fb_responses.primary # "ok" /\ fb_responses.fallback # "ok"

----------------------------------------------------------------------------
(* Properties of the debug metadata of analyze_criterion *)

\* C29: at each call of save_debug_criterion_data the success flag of the
\* metadata it is given equals the success flag of the result
\* analyze_criterion returns for that criterion; the metadata never has
\* success = TRUE together with an error.
C29_MetadataAgreesWithResult ==
    \A k \in 1..Len(seq_debug_calls) :
        /\ k <= Len(all_feedback_json) =>
              seq_debug_calls[k].success = all_feedback_json[k].success
        /\ ~(seq_debug_calls[k].success /\ seq_debug_calls[k].error # "None")

----------------------------------------------------------------------------
(* Properties of validate_vision_config against the vision gate *)

\* the gate of extract_sections_for_criterion_ai for a config whose
\* enabled_for_criteria is this one entry
GateFor(criterion_ref, criterion) ==
    VisionEnabled([enabled |-> TRUE, enabled_for_criteria |-> <<criterion_ref>>],
                  criterion)

\* C30: every enabled_for_criteria entry that validate_vision_config of
\* scripts/test_deploy.py accepts without an issue makes the vision gate of
\* extract_sections_for_criterion_ai true for at least one criterion of the
\* rubric.
C30_AcceptedEntryOpensGate ==
    \A k \in 1..Len(dep_accepted) :
        \E i \in 1..Len(dep_rubric) : GateFor(dep_accepted[k], dep_rubric[i])

====
